---- MODULE Spec2Model ----
(***************************************************************************)
(* A model of the VM orchestration and crash-monitoring engine:            *)
(*   - the crash-detection monitor of one Instance.Run (vm/monitor.go),    *)
(*   - the provisioning retry loop of qemu Pool.Create,                    *)
(*   - the per-slot boot/run/recycle loop of the vm Pool (vm/vm_pool.go).  *)
(* Console output is a sequence of bytes, each byte a one-character        *)
(* string.  Time is counted in ticker periods.                             *)
(***************************************************************************)
EXTENDS Integers, Sequences, FiniteSets, TLC

VARIABLES
    \* ---- monitor (vm/monitor.go), one Run
    exit,             \* mon.exit: ExitCondition bitmask
    beforeContext,    \* mon.beforeContext (OutputSize)
    finished,         \* mon.finished != nil
    injected,         \* mon.injected != nil
    output,           \* mon.output
    matchPos,         \* mon.matchPos
    lastExecuteTime,  \* mon.lastExecuteTime
    extractCalled,    \* mon.extractCalled
    outcOpen,         \* mon.outc not yet seen closed (not nil)
    now,              \* the clock, in ticker periods
    shutdown,         \* vmimpl.Shutdown is closed
    mpc,              \* where the Run is: "loop", "wait", "done", "panic"
    defaultError,     \* extractError's argument while it waits for output
    diagOutput,       \* extractError's diagOutput
    rep,              \* the Report monitorExecution returned
    \* history of the Run, written only
    received,         \* the chunks received from outc, in order
    nscanned,         \* how many of them appendOutput has scanned
    exitVal,          \* the value taken from errc ("none" before)
    cause,            \* what ended the select loop
    extractEntries,   \* number of entries into extractError
    reports,          \* number of Reports extractError has returned
    finishedCalls,    \* number of calls of the EarlyFinishCb
    diagCalls,        \* number of calls of Instance.Diagnose
    shutdownAtEnd,    \* Shutdown was closed when the select loop ended
    finishedAt,       \* when the EarlyFinishCb was called: CallAt(at, diag, reps)
    closeReads,       \* number of times the select loop has read the closure of outc
    runErr,           \* the error qemu Instance.Run returned ("none" before it returns)
    lastActivity,     \* when the latest injection or marker chunk arrived
    ready,            \* the chunk that waits on outc (NoChunk: none is known to)
    diagArg,          \* the title of the Report of the latest Diagnose ("none" before)
    \* ---- qemu Pool.Create, one call
    iter,             \* the loop counter i of Create
    cpc,              \* where Create is: "loop", "done"
    cret,             \* what Create returned: [inst, err]
    \* history of the call, written only
    cattempts,        \* number of calls of pool.ctor
    clast,            \* the outcome of the latest call of pool.ctor
    cfirst,           \* the outcomes of the first HistLen calls of pool.ctor
    \* ---- vm Pool (vm/vm_pool.go) and its Instances
    ctxDone,          \* the context passed to Pool.Loop is cancelled
    activeCount,      \* pool.activeCount
    bootErrors,       \* number of errors buffered in pool.BootErrors
    closeRes,         \* Pool.Close: "none" (not called), "nil", "panic"
    crashed,          \* the panic that ended the process ("none" before)
    ipc,              \* per slot: where its goroutine is
    state,            \* per slot: inst.info.State
    job,              \* per slot: inst.job
    stop,             \* per slot: inst.stop: "nil", "cur" (this cycle's cancel), "old"
    cycleDone,        \* per slot: the context of the current cycle is cancelled
    running,          \* per slot: the job the slot is running
    defers,           \* per slot: the deferred calls of runInstance, next to run first
    panicking,        \* per slot: runInstance is unwinding a panic
    live,             \* per slot: handles Pool.Create returned that are not closed
    switchToJob,      \* per slot: inst.switchToJob: "nil", "made"
    loopRet,          \* Pool.Loop has returned
    \* history, written only
    closeSaw,         \* the slot states at the call of Pool.Close
    closeActive,      \* pool.activeCount at the call of Pool.Close
    freed,            \* per slot: the argument of the latest free that returned
    handoff,          \* per slot: how its select went: "none", "sent", "default"
    \* ---- qemu Instance.Close, on one handle
    h,                \* the fields of the handle Close looks at
    kpc,              \* where Close is: "idle", a field name, "ret", "fault"
    kret,             \* what the latest Close returned ("none" before)
    \* history, written only
    kcalls,           \* number of calls of Close that have returned
    kops,             \* number of fields the current Close has released
    ksnap,            \* the handle as the first Close left it
    \* ---- the trimming of a parsed Report (createReport), one call
    tin,              \* the Report as ParseFrom returned it
    tbc,              \* mon.beforeContext
    tac,              \* afterContext
    tout,             \* the Report as createReport returns it
    tpc,              \* where the call is: "idle", "in", "out"
    \* ---- qemu boot and the goroutine that collects the boot output
    bpc,              \* where boot is: "idle", "wait", "send", "recv", "read", "ret"
    bssh,             \* what WaitForSSH returned: "none", "nil", "err"
    colpc,            \* where the collector is: "select", "append", "close", "gone"
    stopq,            \* values buffered in bootOutputStop
    closed,           \* bootOutputStop is closed
    mq,               \* chunks on inst.merger.Output that nobody has received
    bootOutput,       \* number of chunks in bootOutput
    bret,             \* the output in the error boot returned ("none" without one)
    \* history, written only
    taken,            \* number of chunks the collector has received
    \* ---- vm Pool.Create and vm Instance.Close, called from outside Loop
    objs,             \* per Instance Create returned: the calls of Close on it
    apiErr            \* what the latest Create returned: "none", "nil", or why not

monVars == <<exit, beforeContext, finished, injected, output, matchPos,
             lastExecuteTime, extractCalled, outcOpen, now, shutdown, mpc,
             defaultError, diagOutput, rep, received, nscanned, exitVal, cause,
             extractEntries, reports, finishedCalls, diagCalls, shutdownAtEnd,
             finishedAt, closeReads, runErr, lastActivity, ready, diagArg>>

createVars == <<iter, cpc, cret, cattempts, clast, cfirst>>

freeVars == <<switchToJob, freed, handoff>>

poolVars == <<ctxDone, activeCount, bootErrors, closeRes, crashed, ipc, state, job, stop,
              cycleDone, running, defers, panicking, live, closeSaw, closeActive, freeVars,
              loopRet>>

closeVars == <<h, kpc, kret, kcalls, kops, ksnap>>

trimVars == <<tin, tbc, tac, tout, tpc>>

bootVars == <<bpc, bssh, colpc, stopq, closed, mq, bootOutput, bret, taken>>

apiVars == <<objs, apiErr>>

restVars == <<trimVars, bootVars, apiVars>>

vars == <<monVars, createVars, poolVars, closeVars, restVars>>

----------------------------------------------------------------------------
\* Bounds of the model.
MaxChunks == 3      \* chunks delivered on outc during one Run (the scan)
MaxMonChunks == 2   \* chunks delivered on outc during one Run (the event loop)
MaxTime == 2        \* ticker periods observed during one Run
LongLen == 300      \* length of the long newline-free chunk
HistLen == 3        \* outcomes of pool.ctor remembered of one Create
MaxCloses == 2      \* calls of Close on one handle
MaxTrimLen == 5     \* length of the Output of a Report that is trimmed
MaxBootChunks == 4  \* chunks the machine prints while it boots
MaxObjs == 4        \* Instances made by Pool.Create

\* Program constants.
maxErrorLength == 256
afterContext == 131072
beforeContextDefault == 131072
ExitTimeout == 1
ExitNormal == 2
ExitError == 4
NoOutput == 1       \* pool.timeouts.NoOutput, in ticker periods
MaxRetries == 1000  \* the retry cap of qemu Pool.Create
BootErrorsCap == 1  \* the buffer of pool.BootErrors

lostConnectionCrash == "lost connection to test machine"
noOutputCrash == "no output from test machine"
timeoutCrash == "timed out"
unknownError == "unknown error"

NL == "\n"
vmDiagnosisStart ==
    <<NL, "V", "M", " ", "D", "I", "A", "G", "N", "O", "S", "I", "S", ":", NL>>
executingProgram ==
    <<"e", "x", "e", "c", "u", "t", "e", "d", " ",
      "p", "r", "o", "g", "r", "a", "m", "s", ":">>

\* crash.UnknownType and crash.LostConnection
UnknownType == "UnknownType"
LostConnection == "LostConnection"

----------------------------------------------------------------------------
\* Byte-slice helpers.
Max(a, b) == IF a >= b THEN a ELSE b
Min(a, b) == IF a <= b THEN a ELSE b

\* s[from:] with a 0-based offset
SliceFrom(s, from) == SubSeq(s, from + 1, Len(s))

\* s[from:to] with 0-based offsets
Slice(s, from, to) == SubSeq(s, from + 1, to)

\* bytes.Contains(s, p)
Contains(s, p) ==
    \E i \in 0..(Len(s) - Len(p)) : \A j \in 1..Len(p) : s[i + j] = p[j]

\* bytes.Index(s, p) for a p that occurs in s (0-based)
Index(s, p) ==
    CHOOSE i \in 0..(Len(s) - Len(p)) :
        /\ \A j \in 1..Len(p) : s[i + j] = p[j]
        /\ \A k \in 0..(i - 1) : \E j \in 1..Len(p) : s[k + j] # p[j]

HasBit(e, b) == (e \div b) % 2 = 1

Fill(n) == [i \in 1..n |-> "x"]

----------------------------------------------------------------------------
\* The reporter (pkg/report), an external collaborator: one crash signature.
Sig == <<"B", "U", "G", ":">>
CrashTitle == "BUG: kernel crash"
CrashType == "Bug"

NilRep == [nil |-> TRUE, Title |-> "", Type |-> "", Output |-> <<>>,
           StartPos |-> 0, EndPos |-> 0]

ContainsCrash(w) == Contains(w, Sig)

IsSuppressed(buf) == FALSE

\* 0-based offset of the start of the line that holds offset k of s
LineStart(s, k) ==
    CHOOSE p \in 0..k :
        /\ p = 0 \/ s[p] = NL
        /\ \A q \in (p + 1)..k : s[q] # NL

\* 0-based offset of the end of the line that holds offset k of s
LineEnd(s, k) ==
    CHOOSE p \in k..Len(s) :
        /\ p = Len(s) \/ s[p + 1] = NL
        /\ \A q \in k..(p - 1) : s[q + 1] # NL

ParseFrom(buf, pos) ==
    LET w == SliceFrom(buf, pos) IN
    IF ~ContainsCrash(w) THEN NilRep
    ELSE LET k == Index(w, Sig) IN
         [nil |-> FALSE, Title |-> CrashTitle, Type |-> CrashType, Output |-> buf,
          StartPos |-> pos + LineStart(w, k), EndPos |-> pos + LineEnd(w, k)]

\* What Instance.Diagnose may return: nothing, or some bytes.
DiagResults == {<<>>, <<"r">>}

----------------------------------------------------------------------------
\* The chunks the output channel may deliver, by description.
SigHead(k) == SubSeq(Sig, 1, k)
SigTail(k) == SubSeq(Sig, k + 1, Len(Sig))

Bytes(c) ==
    CASE c.kind = "fill" -> Fill(c.n)
      [] c.kind = "nl"   -> <<NL>>
      [] c.kind = "line" -> <<NL>> \o Fill(c.n)
      [] c.kind = "head" -> SigHead(c.n)
      [] c.kind = "tail" -> SigTail(c.n)
      [] c.kind = "sig"  -> Sig
      [] c.kind = "mark" -> executingProgram
      [] c.kind = "mhead" -> SubSeq(executingProgram, 1, c.n)
      [] c.kind = "mtail" -> SubSeq(executingProgram, c.n + 1, Len(executingProgram))

Chunk(kind, n) == [kind |-> kind, n |-> n]
NoChunk == Chunk("none", 0)

SplitChunks == {Chunk(k, n) : k \in {"head", "tail"}, n \in 1..(Len(Sig) - 1)}

\* For the scan of the window: lines, long lines, split signatures.
ScanChunks ==
    {Chunk("fill", 1), Chunk("fill", LongLen), Chunk("nl", 0),
     Chunk("line", maxErrorLength - Len(Sig)), Chunk("sig", 0)} \cup SplitChunks

\* For the event loop: plain output, a crash, the activity marker.
MonChunks == {Chunk("fill", 1), Chunk("sig", 0), Chunk("mark", 0)}

\* The chunks of the marker: plain output, the marker whole, and its two
\* parts when it is cut after its first word.
MarkChunks ==
    {Chunk("fill", 1), Chunk("mark", 0), Chunk("mhead", 9), Chunk("mtail", 9)}

RECURSIVE Stream(_)
Stream(cs) == IF cs = <<>> THEN <<>> ELSE Bytes(Head(cs)) \o Stream(Tail(cs))

----------------------------------------------------------------------------
\* Every default report is typed as a lost connection.
\* A trimming that cuts the output and leaves the offsets as they were.
Trim_KeepOffsets(r, bc, ac) ==
    LET start == Max(r.StartPos - bc, 0)
        end == Min(r.EndPos + ac, Len(r.Output))
    IN [r EXCEPT !.Output = Slice(@, start, end)]

\* The end of createReport: the output of a parsed Report is cut down to bc
\* bytes before the crash and ac bytes after it, and the offsets follow.
Trim(r, bc, ac) ==
    LET start == Max(r.StartPos - bc, 0)
        end == Min(r.EndPos + ac, Len(r.Output))
    IN [r EXCEPT !.Output = Slice(@, start, end),
                 !.StartPos = @ - start,
                 !.EndPos = @ - start]

createReport_AllLost(buf, mp, bc, de) ==
    LET r == ParseFrom(buf, mp) IN
    IF r.nil
    THEN IF de = "" THEN NilRep
         ELSE [nil |-> FALSE, Title |-> de, Type |-> LostConnection,
               Output |-> buf, StartPos |-> 0, EndPos |-> 0]
    ELSE r

\* No default report is typed as a lost connection.
createReport_NeverLost(buf, mp, bc, de) ==
    LET r == ParseFrom(buf, mp) IN
    IF r.nil
    THEN IF de = "" THEN NilRep
         ELSE [nil |-> FALSE, Title |-> de, Type |-> UnknownType,
               Output |-> buf, StartPos |-> 0, EndPos |-> 0]
    ELSE r

\* monitor.createReport
createReport(buf, mp, bc, de) ==
    LET r == ParseFrom(buf, mp) IN
    IF r.nil
    THEN IF de = "" THEN NilRep
         ELSE [nil |-> FALSE, Title |-> de,
               Type |-> IF de = lostConnectionCrash THEN LostConnection ELSE UnknownType,
               Output |-> buf, StartPos |-> 0, EndPos |-> 0]
    ELSE Trim(r, bc, afterContext)

\* A compaction that never happens.
Compact_Never(buf, bc) == buf

\* monitor.appendOutput, lines 93-96: the compaction of the buffer
Compact(buf, bc) ==
    IF Len(buf) > 2 * bc THEN SubSeq(buf, Len(buf) - bc + 1, Len(buf)) ELSE buf

\* monitor.appendOutput, lines 104-109: the walk back from start, at most
\* maxErrorLength steps, to the first offset that is 0 or follows a newline
StepBack(buf, start) ==
    LET Stop(p) == p <= 0 \/ buf[p] = NL
        walk == (start - maxErrorLength + 1)..start
    IN IF \E p \in walk : Stop(p)
       THEN CHOOSE p \in walk : Stop(p) /\ \A q \in (p + 1)..start : ~Stop(q)
       ELSE start - maxErrorLength

\* The next scan starts maxErrorLength back, without the walk to a newline.
NextMatchPos_NoWalk(buf) == Max(Len(buf) - maxErrorLength, 0)

\* The walk back is not clamped at the start of the buffer.
NextMatchPos_NoClamp(buf) == StepBack(buf, Len(buf) - maxErrorLength)

\* monitor.appendOutput, lines 103-110: where the next scan starts
NextMatchPos(buf) == Max(StepBack(buf, Len(buf) - maxErrorLength), 0)

\* Any output resets the deadline.
ResetsDeadline_AnyOutput(buf, lastPos) == Len(buf) > lastPos

\* monitor.appendOutput, line 87: the chunk shows that programs are executed
ResetsDeadline(buf, lastPos) == Contains(SliceFrom(buf, lastPos), executingProgram)

\* monitor.appendOutput, line 90: the scan of the window
WindowHasCrash(buf, mp) == ContainsCrash(SliceFrom(buf, mp))

\* extractError, lines 143-146: the diagnosis appended to the report
WithDiag(r, d) ==
    IF r.nil THEN NilRep
    ELSE IF Len(d) > 0 THEN [r EXCEPT !.Output = @ \o vmDiagnosisStart \o d]
    ELSE r

\* No guard: a second extraction goes through.
ExtractGuard_Off(called) == FALSE

\* extractError, line 115: the at-most-once guard
ExtractGuard(called) == called

\* Trailing output is waited for whatever the error.
\* No wait for trailing output at all.
WaitsForOutput_Never(de) == FALSE

WaitsForOutput_Always(de) == TRUE

\* extractError, line 130: whether trailing output is waited for
WaitsForOutput(de) == de # noOutputCrash

\* extractError, line 125: whether Diagnose is called before the wait
\* A second Diagnose after every wait that ends with a crash in the window.
DiagnosesLate_AnyCrash(de, crash) == crash

\* extractError, lines 134-137: Diagnose is called after the wait when it was
\* not called before it and the window now holds a crash.
DiagnosesLate(de, crash) == de = "" /\ crash

\* waitForOutput, lines 176-188: the timer is started when the wait begins; a
\* chunk that waits on outc already is received before the timer fires.
TimerFires(chunk) == chunk = NoChunk

\* What the next receive from outc delivers.
Offered(chunks, chunk) == IF chunk = NoChunk THEN chunks ELSE {chunk}

DiagnosesFirst(de) == de # ""

\* The policy bits of a clean exit and of a timeout are read inverted.
ExitDefaultError_Inverted(err, e) ==
    CASE err = "nil"     -> IF HasBit(e, ExitNormal) THEN lostConnectionCrash ELSE ""
      [] err = "timeout" -> IF HasBit(e, ExitTimeout) THEN timeoutCrash ELSE "return"
      [] err = "error"   -> IF ~HasBit(e, ExitError) THEN lostConnectionCrash ELSE ""

\* An exit with an error is a lost connection whatever the policy.
ExitDefaultError_ErrorsFatal(err, e) ==
    CASE err = "nil"     -> IF ~HasBit(e, ExitNormal) THEN lostConnectionCrash ELSE ""
      [] err = "timeout" -> IF ~HasBit(e, ExitTimeout) THEN timeoutCrash ELSE "return"
      [] err = "error"   -> lostConnectionCrash

\* A timeout is a crash whatever the policy.
ExitDefaultError_TimeoutFatal(err, e) ==
    CASE err = "nil"     -> IF ~HasBit(e, ExitNormal) THEN lostConnectionCrash ELSE ""
      [] err = "timeout" -> timeoutCrash
      [] err = "error"   -> IF ~HasBit(e, ExitError) THEN lostConnectionCrash ELSE ""

\* monitorExecution, lines 37-59: the default error of an exit value;
\* "return" stands for returning nil without extraction
ExitDefaultError(err, e) ==
    CASE err = "nil"     -> IF ~HasBit(e, ExitNormal) THEN lostConnectionCrash ELSE ""
      [] err = "timeout" -> IF ~HasBit(e, ExitTimeout) THEN timeoutCrash ELSE "return"
      [] err = "error"   -> IF ~HasBit(e, ExitError) THEN lostConnectionCrash ELSE ""

\* Shutdown is reported as a lost connection.
ShutdownDefaultError_Lost(sd) == lostConnectionCrash

\* monitorExecution, lines 78-79: the Shutdown case returns nil; "return"
\* stands for returning nil without extraction
ShutdownDefaultError(sd) == "return"

\* The closed channel stays in the select.
OutcAfterClose_Kept(open) == open

\* monitorExecution, line 62: mon.outc = nil, the channel leaves the select
OutcAfterClose(open) == FALSE

\* monitorExecution, line 75
HangDetected(t, last) == t - last > NoOutput

----------------------------------------------------------------------------
\* A call of the EarlyFinishCb: where it was made (at the start of
\* extractError, or deferred at the return of monitorExecution), after how
\* many calls of Diagnose and how many assembled Reports.
CallAt(at, d, r) == [at |-> at, diag |-> d, reps |-> r]
NeverCalled == CallAt("never", 0, 0)

\* extractError never calls the callback.
NotifiesEarly_Never(fin) == FALSE

\* extractError, lines 119-123: the callback, if still set, is called and unset
NotifiesEarly(fin) == fin

\* The return of monitorExecution with report r.  fin: mon.finished is still
\* set, so that the deferred call (lines 29-33) runs; fc, fa: the calls of the
\* callback made before; dc, rc: the calls of Diagnose and the Reports
\* assembled before the return.
Return(r, fin, fc, fa, why, dc, rc) ==
    /\ mpc' = "done"
    /\ rep' = r
    /\ cause' = why
    /\ finished' = fin
    /\ finishedCalls' = fc + (IF fin THEN 1 ELSE 0)
    /\ finishedAt' = IF fin THEN CallAt("return", dc, rc) ELSE fa
    /\ shutdownAtEnd' = IF mpc = "loop" THEN shutdown ELSE shutdownAtEnd

\* extractError, lines 134-147, once the wait for output is over.  d0, dc:
\* the diagnosis made before the wait and the calls of Diagnose so far.
FinishExtract(buf, de, d0, dc, fin, fc, fa, why, da) ==
    LET second == DiagnosesLate(de, WindowHasCrash(buf, matchPos))
        dc2 == dc + (IF second THEN 1 ELSE 0)
    IN
    /\ output' = buf
    /\ diagArg' = IF second THEN createReport(buf, matchPos, beforeContext, de).Title ELSE da
    /\ defaultError' = de
    /\ reports' = reports + 1
    /\ diagCalls' = dc2
    /\ \E d \in (IF second THEN DiagResults ELSE {d0}) :
          /\ diagOutput' = d
          /\ Return(WithDiag(createReport(buf, matchPos, beforeContext, de), d),
                    fin, fc, fa, why, dc2, reports + 1)

\* extractError(de), lines 114-132, entered with the buffer buf.
Extract(buf, de, why) ==
    IF ExtractGuard(extractCalled)
    THEN /\ mpc' = "panic"
         /\ output' = buf
         /\ extractEntries' = extractEntries + 1
         /\ UNCHANGED <<extractCalled, finished, finishedCalls, finishedAt, diagCalls,
                        diagOutput, rep, reports, defaultError, cause, shutdownAtEnd,
                        diagArg>>
    ELSE LET early == NotifiesEarly(finished)
             fin1 == finished /\ ~early
             fc1 == finishedCalls + (IF early THEN 1 ELSE 0)
             fa1 == IF early THEN CallAt("extract", diagCalls, reports) ELSE finishedAt
             dc1 == diagCalls + (IF DiagnosesFirst(de) THEN 1 ELSE 0)
             da1 == IF DiagnosesFirst(de)
                    THEN createReport(buf, matchPos, beforeContext, de).Title
                    ELSE diagArg
         IN
         /\ extractCalled' = TRUE
         /\ extractEntries' = extractEntries + 1
         /\ \E d \in (IF DiagnosesFirst(de) THEN DiagResults ELSE {<<>>}) :
              IF WaitsForOutput(de)
              THEN /\ mpc' = "wait"
                   /\ output' = buf
                   /\ defaultError' = de
                   /\ cause' = why
                   /\ shutdownAtEnd' = IF mpc = "loop" THEN shutdown ELSE shutdownAtEnd
                   /\ finished' = fin1
                   /\ finishedCalls' = fc1
                   /\ finishedAt' = fa1
                   /\ diagOutput' = d
                   /\ diagCalls' = dc1
                   /\ diagArg' = da1
                   /\ UNCHANGED <<rep, reports>>
              ELSE FinishExtract(buf, de, d, dc1, fin1, fc1, fa1, why, da1)

extractVars == <<mpc, output, extractEntries, extractCalled, finished, finishedCalls,
                 finishedAt,
                 diagCalls, diagOutput, rep, reports, defaultError, cause,
                 shutdownAtEnd, diagArg>>

----------------------------------------------------------------------------
\* Every case of the switch on the exit value returns.
ExitReturns_NilIgnored(err) == err # "nil"

\* monitorExecution, lines 37-59: whether the case of the exit value err
\* returns from the select loop
ExitReturns(err) == TRUE

\* Instance.Run goes on whatever qemu Instance.Run returned.
RunFails_Never(err) == FALSE

\* Instance.Run, line 87: if err != nil
RunFails(err) == err # "nil"

\* qemu Instance.Run: what it returns as its error: nil, with the channels of
\* the multiplexer; the error of osutil.LongPipe; or the error of cmd.Start.
RunErrors == {"nil", "pipe", "start"}

\* Instance.Run, lines 66-85 of the Instance file: the options are read, the
\* remote command is not started yet.
MonInit(exits, sizes, cbs, injs) ==
    /\ exit \in exits
    /\ beforeContext \in sizes
    /\ finished \in cbs
    /\ injected \in injs
    /\ output = <<>>
    /\ matchPos = 0
    /\ lastExecuteTime = 0
    /\ extractCalled = FALSE
    /\ outcOpen = TRUE
    /\ now = 0
    /\ shutdown = FALSE
    /\ mpc = "start"
    /\ runErr = "none"
    /\ lastActivity = 0
    /\ defaultError = ""
    /\ diagOutput = <<>>
    /\ rep = NilRep
    /\ received = <<>>
    /\ nscanned = 0
    /\ exitVal = "none"
    /\ cause = "none"
    /\ extractEntries = 0
    /\ reports = 0
    /\ finishedCalls = 0
    /\ diagCalls = 0
    /\ shutdownAtEnd = FALSE
    /\ finishedAt = NeverCalled
    /\ closeReads = 0
    /\ diagArg = "none"

\* Instance.Run, lines 86-100: the remote command is started; on an error Run
\* returns it, with no output and no Report, else the monitor is made and its
\* loop entered.
RunStart ==
    /\ mpc = "start"
    /\ \E err \in RunErrors :
          /\ runErr' = err
          /\ IF RunFails(err)
             THEN mpc' = "done" /\ cause' = "start" /\ UNCHANGED lastExecuteTime
             ELSE mpc' = "loop" /\ cause' = cause /\ lastExecuteTime' = now
    /\ UNCHANGED <<exit, beforeContext, finished, injected, output, matchPos, extractCalled,
                   outcOpen, now, shutdown, defaultError, diagOutput, rep, received,
                   nscanned, exitVal, extractEntries, reports, finishedCalls, diagCalls,
                   shutdownAtEnd, finishedAt, closeReads, lastActivity>>
    /\ UNCHANGED <<createVars, poolVars, closeVars, restVars, ready, diagArg>>

\* monitorExecution, lines 36-59: a value arrives on errc.
RecvExit ==
    /\ mpc = "loop"
    /\ \E err \in {"nil", "timeout", "error"} :
          /\ exitVal' = err
          /\ LET de == ExitDefaultError(err, exit) IN
             IF ~ExitReturns(err)
             THEN UNCHANGED extractVars
             ELSE IF de = "return"
                  THEN /\ Return(NilRep, finished, finishedCalls, finishedAt, "exit",
                                 diagCalls, reports)
                       /\ UNCHANGED <<output, extractEntries, extractCalled, diagCalls,
                                      diagOutput, reports, defaultError, diagArg>>
                  ELSE Extract(output, de, "exit")
    /\ UNCHANGED <<exit, beforeContext, injected, matchPos, lastExecuteTime, lastActivity,
                   outcOpen, closeReads, now, shutdown, received, nscanned>>
    /\ UNCHANGED <<createVars, poolVars, closeVars, restVars, runErr, ready>>

\* monitorExecution, lines 60-68, and appendOutput: a chunk arrives on outc.
RecvOutput(chunks, max) ==
    /\ mpc = "loop"
    /\ outcOpen
    /\ Len(received) < max
    /\ ready' = NoChunk
    /\ \E c \in Offered(chunks, ready) :
          LET lastPos == Len(output)
              buf == output \o Bytes(c)
          IN /\ received' = Append(received, c)
             /\ nscanned' = nscanned + 1
             /\ lastExecuteTime' =
                    IF ResetsDeadline(buf, lastPos) THEN now ELSE lastExecuteTime
             /\ lastActivity' =
                    IF Contains(Bytes(c), executingProgram) THEN now ELSE lastActivity
             /\ IF WindowHasCrash(buf, matchPos)
                THEN /\ Extract(buf, unknownError, "crash")
                     /\ matchPos' = matchPos
                ELSE /\ output' = Compact(buf, beforeContext)
                     /\ matchPos' = NextMatchPos(Compact(buf, beforeContext))
                     /\ UNCHANGED <<mpc, extractEntries, extractCalled, finished,
                                    finishedCalls, finishedAt, diagCalls, diagOutput, rep, reports,
                                    defaultError, cause, shutdownAtEnd, diagArg>>
    /\ UNCHANGED <<exit, beforeContext, injected, outcOpen, closeReads, now, shutdown, exitVal>>
    /\ UNCHANGED <<createVars, poolVars, closeVars, restVars, runErr>>

\* monitorExecution, lines 61-64: outc is closed; the loop goes on without it.
OutcClosed ==
    /\ mpc = "loop"
    /\ outcOpen
    /\ ready = NoChunk
    /\ outcOpen' = OutcAfterClose(outcOpen)
    /\ closeReads' = closeReads + 1
    /\ UNCHANGED <<exit, beforeContext, injected, matchPos, lastExecuteTime, lastActivity, now,
                   shutdown, received, nscanned, exitVal, extractVars>>
    /\ UNCHANGED <<createVars, poolVars, closeVars, restVars, runErr, ready>>

\* monitorExecution, lines 69-71: the harness injected a program.
RecvInjected ==
    /\ mpc = "loop"
    /\ injected
    /\ lastExecuteTime' = now
    /\ lastActivity' = now
    /\ UNCHANGED <<exit, beforeContext, injected, matchPos, outcOpen, closeReads, now, shutdown,
                   received, nscanned, exitVal, extractVars>>
    /\ UNCHANGED <<createVars, poolVars, closeVars, restVars, runErr, ready>>

\* monitorExecution, lines 72-77: a ticker period has passed.
OnTick ==
    /\ mpc = "loop"
    /\ now < MaxTime
    /\ now' = now + 1
    /\ IF HangDetected(now + 1, lastExecuteTime)
       THEN Extract(output, noOutputCrash, "noout")
       ELSE UNCHANGED extractVars
    /\ UNCHANGED <<exit, beforeContext, injected, matchPos, lastExecuteTime, lastActivity, outcOpen, closeReads,
                   shutdown, received, nscanned, exitVal>>
    /\ UNCHANGED <<createVars, poolVars, closeVars, restVars, runErr, ready>>

\* vmimpl.Shutdown is closed by the process.
Shutdown ==
    /\ mpc \in {"loop", "wait"}
    /\ ~shutdown
    /\ shutdown' = TRUE
    /\ UNCHANGED <<exit, beforeContext, injected, matchPos, lastExecuteTime, lastActivity, outcOpen, closeReads,
                   now, received, nscanned, exitVal, extractVars>>
    /\ UNCHANGED <<createVars, poolVars, closeVars, restVars, runErr, ready>>

\* monitorExecution, lines 78-79: the loop observes Shutdown.
RecvShutdown ==
    /\ mpc = "loop"
    /\ shutdown
    /\ LET de == ShutdownDefaultError(shutdown) IN
       IF de = "return"
       THEN /\ Return(NilRep, finished, finishedCalls, finishedAt, "shutdown",
                      diagCalls, reports)
            /\ UNCHANGED <<output, extractEntries, extractCalled, diagCalls, diagOutput,
                           reports, defaultError, diagArg>>
       ELSE Extract(output, de, "shutdown")
    /\ UNCHANGED <<exit, beforeContext, injected, matchPos, lastExecuteTime, lastActivity, outcOpen, closeReads,
                   now, shutdown, received, nscanned, exitVal>>
    /\ UNCHANGED <<createVars, poolVars, closeVars, restVars, runErr, ready>>

\* waitForOutput, lines 180-184: trailing output is appended, not scanned.
WaitRecvOutput(chunks, max) ==
    /\ mpc = "wait"
    /\ outcOpen
    /\ Len(received) < max
    /\ ready' = NoChunk
    /\ \E c \in Offered(chunks, ready) :
          /\ output' = output \o Bytes(c)
          /\ received' = Append(received, c)
    /\ UNCHANGED <<exit, beforeContext, injected, matchPos, lastExecuteTime, lastActivity, outcOpen, closeReads,
                   now, shutdown, nscanned, exitVal, mpc, extractEntries, extractCalled,
                   finished, finishedCalls, finishedAt, diagCalls, diagOutput, rep,
                   reports, defaultError, cause, shutdownAtEnd, diagArg>>
    /\ UNCHANGED <<createVars, poolVars, closeVars, restVars, runErr>>

\* waitForOutput returns (outc closed, the timer, Shutdown) and extractError
\* assembles the report, lines 134-147.
WaitEnd ==
    /\ mpc = "wait"
    /\ TimerFires(ready) \/ shutdown
    /\ FinishExtract(output, defaultError, diagOutput, diagCalls, finished, finishedCalls,
                     finishedAt, cause, diagArg)
    /\ UNCHANGED <<exit, beforeContext, injected, matchPos, lastExecuteTime, lastActivity, outcOpen, closeReads,
                   now, shutdown, received, nscanned, exitVal, extractEntries,
                   extractCalled>>
    /\ UNCHANGED <<createVars, poolVars, closeVars, restVars, runErr, ready>>

\* extractError is invoked once more on a monitor that has extracted.
SecondExtract ==
    /\ mpc = "done"
    /\ extractCalled
    /\ Extract(output, unknownError, cause)
    /\ UNCHANGED <<exit, beforeContext, injected, matchPos, lastExecuteTime, lastActivity, outcOpen, closeReads,
                   now, shutdown, received, nscanned, exitVal>>
    /\ UNCHANGED <<createVars, poolVars, closeVars, restVars, runErr, ready>>

----------------------------------------------------------------------------
\* qemu Pool.Create: the provisioning retry loop.  An error text is a sequence
\* of tokens; strings.Contains is Contains on them.
NoErr == <<>>
NoInst == 0

hostForwarding == <<"ould", "not", "set", "up", "host", "forwarding", "rule">>
resourceBusy == <<"Device", "or", "resource", "busy">>
addressInUse == <<"Address", "already", "in", "use">>

\* What pool.ctor may fail with.
ErrForward == <<"qemu:", "C">> \o hostForwarding
ErrBusy == <<"qemu:", "ioctl:">> \o resourceBusy
ErrInUse == <<"qemu:", "bind:">> \o addressInUse
ErrStart == <<"failed", "to", "start", "qemu">>
CtorErrors == {ErrForward, ErrBusy, ErrInUse, ErrStart}

\* Create retries after every failure, whatever the count.
Retries_NoCap(n, err) ==
    \/ Contains(err, hostForwarding)
    \/ Contains(err, resourceBusy)
    \/ Contains(err, addressInUse)

\* Create retries after any failure, up to the cap.
Retries_AnyError(n, err) == n < MaxRetries

\* Create does not know "Address already in use".
Retries_NoInUse(n, err) ==
    \/ n < MaxRetries /\ Contains(err, hostForwarding)
    \/ n < MaxRetries /\ Contains(err, resourceBusy)

\* Create, lines 631-639: whether iteration n goes on after the failure err
Retries(n, err) ==
    \/ n < MaxRetries /\ Contains(err, hostForwarding)
    \/ n < MaxRetries /\ Contains(err, resourceBusy)
    \/ n < MaxRetries /\ Contains(err, addressInUse)

CreateInit ==
    /\ iter = 0
    /\ cpc = "loop"
    /\ cret = [inst |-> NoInst, err |-> NoErr]
    /\ cattempts = 0
    /\ clast = NoErr
    /\ cfirst = <<>>

\* Create, lines 625-641: one iteration; the instance of the n-th call of
\* pool.ctor is named n.
CreateAttempt ==
    /\ cpc = "loop"
    /\ cattempts' = cattempts + 1
    /\ \E err \in CtorErrors \cup {NoErr} :
          /\ cfirst' = IF Len(cfirst) < HistLen THEN Append(cfirst, err) ELSE cfirst
          /\ clast' = err
          /\ IF err = NoErr
             THEN /\ cret' = [inst |-> cattempts + 1, err |-> NoErr]
                  /\ cpc' = "done"
                  /\ iter' = iter
             ELSE IF Retries(iter, err)
             THEN /\ iter' = iter + 1
                  /\ UNCHANGED <<cret, cpc>>
             ELSE /\ cret' = [inst |-> NoInst, err |-> err]
                  /\ cpc' = "done"
                  /\ iter' = iter
    /\ UNCHANGED <<monVars, poolVars, closeVars, restVars>>

----------------------------------------------------------------------------
\* The vm Pool: its slots, their loop, job assignment and Close.
Instances == {1, 2}
Jobs == {"A", "B"}
NoJob == "nil"

StateOffline == "Offline"
StateBooting == "Booting"
StateWaiting == "Waiting"
StateRunning == "Running"

\* Pool.Close never panics.
ClosePanics_Never(count) == FALSE

\* Pool.Close, line 120
ClosePanics(count) == count # 0

\* The context of the slot's current cycle is done: cancelled itself, or its
\* parent, the context of Pool.Loop, is.
CtxErr(s) == cycleDone[s] \/ ctxDone

\* The slot's loop ends after one cycle.
LoopGoesOn_Never(done) == FALSE

\* Loop, line 77: for ctx.Err() == nil
LoopGoesOn(done) == ~done

\* Deferred calls run in the order of their defer statements.
DeferPush_Fifo(stack, call) == Append(stack, call)

\* A defer statement: the call will run before those deferred earlier
DeferPush(stack, call) == <<call>> \o stack

\* Waiting is skipped: the slot is marked Running as soon as it has booted.
StatusArg_NoWaiting(site) ==
    CASE site = "booting" -> StateBooting
      [] site = "created" -> StateRunning
      [] site = "run"     -> StateRunning
      [] site = "offline" -> StateOffline

\* runInstance, lines 95, 96, 107, 115: the argument of each inst.status call
StatusArg(site) ==
    CASE site = "booting" -> StateBooting
      [] site = "created" -> StateWaiting
      [] site = "run"     -> StateRunning
      [] site = "offline" -> StateOffline

\* A send on pool.BootErrors goes through when the buffer has room.
CanSend(n) == n < BootErrorsCap

\* free never calls inst.stop.
FreeStops_Never(j) == FALSE

\* Instance.free, line 162: inst.stop is called when a job is set
FreeStops(j) == j # NoJob

\* free leaves the job that is set.
FreeAssigns_Keeps(old, new) == IF old = NoJob THEN new ELSE old

\* Instance.free, line 166: pi.job = job
FreeAssigns(old, new) == new

\* The stop function of a slot cancels the cycle of every slot.
StopCancels_All(s, t) == TRUE

\* runInstance, lines 88-92: the stop function inst.reset stores in slot s is
\* the cancel of the context made for the cycle of s; it cancels that of t
\* only when t is s.
StopCancels(s, t) == s = t

\* runInstance calls whatever it has read.
JobIsNil_Never(j) == FALSE

\* runInstance, line 111: if job == nil
JobIsNil(j) == j = NoJob

\* Whether the mutex of the Instance is held at an access to its shared
\* fields: in reset, in status (through updateInfo) and in free it is, lines
\* 130, 142 and 161-168 of the Instance file; at the read of inst.job in
\* runInstance, vm_pool.go line 109, it is not.
Locks(site) ==
    CASE site = "reset"   -> TRUE
      [] site = "status"  -> TRUE
      [] site = "free"    -> TRUE
      [] site = "readjob" -> FALSE

\* runInstance never receives from inst.switchToJob, whatever at it is at.
Receiving(at) == FALSE

\* Instance.free, lines 170-175: the select with a default case.  A nil
\* channel is never ready, and neither is one with no receiver.
Handoff(ch, receiving) == IF ch = "made" /\ receiving THEN "sent" ELSE "default"

PoolInit ==
    /\ ctxDone = FALSE
    /\ activeCount = 0
    /\ bootErrors = 0
    /\ closeRes = "none"
    /\ crashed = "none"
    /\ ipc = [s \in Instances |-> "check"]
    /\ state = [s \in Instances |-> StateOffline]
    /\ \E def \in {NoJob, "A"} : job = [s \in Instances |-> def]
    /\ stop = [s \in Instances |-> "nil"]
    /\ cycleDone = [s \in Instances |-> FALSE]
    /\ running = [s \in Instances |-> NoJob]
    /\ defers = [s \in Instances |-> <<>>]
    /\ panicking = [s \in Instances |-> FALSE]
    /\ live = [s \in Instances |-> 0]
    /\ closeSaw = {}
    /\ closeActive = 0
    /\ switchToJob = [s \in Instances |-> "nil"]
    /\ freed = [s \in Instances |-> NoJob]
    /\ handoff = [s \in Instances |-> "none"]
    /\ loopRet = FALSE

\* The process runs: Pool.Close has not been called and nothing has panicked.
Alive == closeRes = "none" /\ crashed = "none"

\* Loop, line 77, and runInstance, lines 88-89: the loop test, the cycle's
\* context and its deferred cancel.
LoopCheck(s) ==
    /\ Alive
    /\ ipc[s] = "check"
    /\ IF LoopGoesOn(ctxDone)
       THEN /\ ipc' = [ipc EXCEPT ![s] = "reset"]
            /\ cycleDone' = [cycleDone EXCEPT ![s] = FALSE]
            /\ defers' = [defers EXCEPT ![s] = DeferPush(@, "cancel")]
            /\ stop' = [stop EXCEPT ![s] = IF @ = "cur" THEN "old" ELSE @]
       ELSE /\ ipc' = [ipc EXCEPT ![s] = "exited"]
            /\ UNCHANGED <<cycleDone, defers, stop>>
    /\ UNCHANGED <<ctxDone, activeCount, bootErrors, closeRes, crashed, state, job, running,
                   panicking, live, closeSaw, closeActive>>
    /\ UNCHANGED <<monVars, createVars, closeVars, restVars, loopRet, freeVars>>

\* runInstance, line 92: inst.reset(cancel)
Reset(s) ==
    /\ Alive
    /\ ipc[s] = "reset"
    /\ state' = [state EXCEPT ![s] = StateOffline]
    /\ stop' = [stop EXCEPT ![s] = "cur"]
    /\ switchToJob' = [switchToJob EXCEPT ![s] = "made"]
    /\ ipc' = [ipc EXCEPT ![s] = "booting"]
    /\ UNCHANGED <<ctxDone, activeCount, bootErrors, closeRes, crashed, job, cycleDone, running,
                   defers, panicking, live, closeSaw, closeActive>>
    /\ UNCHANGED <<monVars, createVars, closeVars, restVars, loopRet, freed, handoff>>

\* runInstance, lines 95-96: inst.status(StateBooting); defer inst.status(StateOffline)
StatusBooting(s) ==
    /\ Alive
    /\ ipc[s] = "booting"
    /\ state' = [state EXCEPT ![s] = StatusArg("booting")]
    /\ defers' = [defers EXCEPT ![s] = DeferPush(@, "offline")]
    /\ ipc' = [ipc EXCEPT ![s] = "create"]
    /\ UNCHANGED <<ctxDone, activeCount, bootErrors, closeRes, crashed, job, stop, cycleDone,
                   running, panicking, live, closeSaw, closeActive>>
    /\ UNCHANGED <<monVars, createVars, closeVars, restVars, loopRet, freeVars>>

\* runInstance, line 98, and Pool.Create: the VM is created, or the boot fails.
\* What a Create that succeeded does to pool.activeCount, and what the onClose
\* of the Instance it returned does to it on every call of Instance.Close.
OnCreate(n) == n + 1
OnClose(n) == n - 1

Create(s) ==
    /\ Alive
    /\ ipc[s] = "create"
    /\ \E ok \in BOOLEAN :
          IF ok
          THEN /\ activeCount' = OnCreate(activeCount)
               /\ live' = [live EXCEPT ![s] = @ + 1]
               /\ ipc' = [ipc EXCEPT ![s] = "created"]
          ELSE /\ UNCHANGED <<activeCount, live>>
               /\ ipc' = [ipc EXCEPT ![s] = "bootErr"]
    /\ UNCHANGED <<ctxDone, bootErrors, closeRes, crashed, state, job, stop, cycleDone, running,
                   defers, panicking, closeSaw, closeActive>>
    /\ UNCHANGED <<monVars, createVars, closeVars, restVars, loopRet, freeVars>>

\* runInstance, lines 100-101: the boot error is sent on pool.BootErrors, and
\* runInstance returns.
SendBootError(s) ==
    /\ Alive
    /\ ipc[s] = "bootErr"
    /\ CanSend(bootErrors)
    /\ bootErrors' = bootErrors + 1
    /\ ipc' = [ipc EXCEPT ![s] = "unwind"]
    /\ UNCHANGED <<ctxDone, activeCount, closeRes, crashed, state, job, stop, cycleDone, running,
                   defers, panicking, live, closeSaw, closeActive>>
    /\ UNCHANGED <<monVars, createVars, closeVars, restVars, loopRet, freeVars>>

\* The owner of the pool receives a boot error.
RecvBootError ==
    /\ Alive
    /\ bootErrors > 0
    /\ bootErrors' = bootErrors - 1
    /\ UNCHANGED <<ctxDone, activeCount, closeRes, crashed, ipc, state, job, stop, cycleDone,
                   running, defers, panicking, live, closeSaw, closeActive>>
    /\ UNCHANGED <<monVars, createVars, closeVars, restVars, loopRet, freeVars>>

\* runInstance, lines 103-107: defer obj.Close(); inst.status(StateWaiting)
StatusWaiting(s) ==
    /\ Alive
    /\ ipc[s] = "created"
    /\ defers' = [defers EXCEPT ![s] = DeferPush(@, "close")]
    /\ state' = [state EXCEPT ![s] = StatusArg("created")]
    /\ ipc' = [ipc EXCEPT ![s] = "readjob"]
    /\ UNCHANGED <<ctxDone, activeCount, bootErrors, closeRes, crashed, job, stop, cycleDone,
                   running, panicking, live, closeSaw, closeActive>>
    /\ UNCHANGED <<monVars, createVars, closeVars, restVars, loopRet, freeVars>>

\* runInstance, lines 109-113: the job is read; a nil job panics, and the
\* deferred calls run before the process dies.
ReadJob(s) ==
    /\ Alive
    /\ ipc[s] = "readjob"
    /\ IF JobIsNil(job[s])
       THEN /\ panicking' = [panicking EXCEPT ![s] = TRUE]
            /\ ipc' = [ipc EXCEPT ![s] = "unwind"]
            /\ UNCHANGED running
       ELSE /\ ipc' = [ipc EXCEPT ![s] = "run"]
            /\ running' = [running EXCEPT ![s] = job[s]]
            /\ UNCHANGED panicking
    /\ UNCHANGED <<ctxDone, activeCount, bootErrors, closeRes, crashed, state, job, stop,
                   cycleDone, defers, live, closeSaw, closeActive>>
    /\ UNCHANGED <<monVars, createVars, closeVars, restVars, loopRet, freeVars>>

\* runInstance, lines 115-116: inst.status(StateRunning), and the job is called.
StatusRunning(s) ==
    /\ Alive
    /\ ipc[s] = "run"
    /\ state' = [state EXCEPT ![s] = StatusArg("run")]
    /\ ipc' = [ipc EXCEPT ![s] = "job"]
    /\ UNCHANGED <<ctxDone, activeCount, bootErrors, closeRes, crashed, job, stop, cycleDone,
                   running, defers, panicking, live, closeSaw, closeActive>>
    /\ UNCHANGED <<monVars, createVars, closeVars, restVars, loopRet, freeVars>>

\* The job returns, of itself or because its context is done, and so does
\* runInstance.
JobReturn(s) ==
    /\ Alive
    /\ ipc[s] = "job"
    /\ ipc' = [ipc EXCEPT ![s] = "unwind"]
    /\ running' = [running EXCEPT ![s] = NoJob]
    /\ UNCHANGED <<ctxDone, activeCount, bootErrors, closeRes, crashed, state, job, stop,
                   cycleDone, defers, panicking, live, closeSaw, closeActive>>
    /\ UNCHANGED <<monVars, createVars, closeVars, restVars, loopRet, freeVars>>

\* runInstance is returning or panicking and call is the next deferred call.
Deferred(s, call) ==
    /\ Alive
    /\ ipc[s] = "unwind"
    /\ defers[s] # <<>>
    /\ Head(defers[s]) = call
    /\ defers' = [defers EXCEPT ![s] = Tail(@)]

\* runInstance, line 103, deferred: obj.Close(), which runs onClose.
CloseObj(s) ==
    /\ Deferred(s, "close")
    /\ activeCount' = OnClose(activeCount)
    /\ live' = [live EXCEPT ![s] = @ - 1]
    /\ UNCHANGED <<ctxDone, bootErrors, closeRes, crashed, ipc, state, job, stop, cycleDone,
                   running, panicking, closeSaw, closeActive>>
    /\ UNCHANGED <<monVars, createVars, closeVars, restVars, loopRet, freeVars>>

\* runInstance, line 96, deferred: inst.status(StateOffline)
StatusOffline(s) ==
    /\ Deferred(s, "offline")
    /\ state' = [state EXCEPT ![s] = StatusArg("offline")]
    /\ UNCHANGED <<ctxDone, activeCount, bootErrors, closeRes, crashed, ipc, job, stop,
                   cycleDone, running, panicking, live, closeSaw, closeActive>>
    /\ UNCHANGED <<monVars, createVars, closeVars, restVars, loopRet, freeVars>>

\* runInstance, line 89, deferred: cancel()
Cancel(s) ==
    /\ Deferred(s, "cancel")
    /\ cycleDone' = [cycleDone EXCEPT ![s] = TRUE]
    /\ UNCHANGED <<ctxDone, activeCount, bootErrors, closeRes, crashed, ipc, state, job, stop,
                   running, panicking, live, closeSaw, closeActive>>
    /\ UNCHANGED <<monVars, createVars, closeVars, restVars, loopRet, freeVars>>

\* The deferred calls are done: runInstance is back in the loop of line 77,
\* or its panic ends the process.
Returned(s) ==
    /\ Alive
    /\ ipc[s] = "unwind"
    /\ defers[s] = <<>>
    /\ IF panicking[s]
       THEN crashed' = "job is nil" /\ UNCHANGED ipc
       ELSE ipc' = [ipc EXCEPT ![s] = "check"] /\ UNCHANGED crashed
    /\ UNCHANGED <<ctxDone, activeCount, bootErrors, closeRes, state, job, stop, cycleDone,
                   running, defers, panicking, live, closeSaw, closeActive>>
    /\ UNCHANGED <<monVars, createVars, closeVars, restVars, loopRet, freeVars>>

\* Instance.free(j), lines 160-176 of the Instance file.  Under the mutex: a
\* set job makes it call inst.stop (a nil stop panics), and the job is
\* replaced.  Then the select offers the job on the channel read under the
\* mutex and returns.
Free(s) ==
    /\ Alive
    /\ \E j \in Jobs :
          IF FreeStops(job[s]) /\ stop[s] = "nil"
          THEN /\ crashed' = "stop is nil"
               /\ UNCHANGED <<job, cycleDone, freed, handoff>>
          ELSE /\ job' = [job EXCEPT ![s] = FreeAssigns(@, j)]
               /\ cycleDone' = [t \in Instances |->
                                  IF FreeStops(job[s]) /\ stop[s] = "cur" /\ StopCancels(s, t)
                                  THEN TRUE ELSE cycleDone[t]]
               /\ freed' = [freed EXCEPT ![s] = j]
               /\ handoff' = [handoff EXCEPT ![s] = Handoff(switchToJob[s], Receiving(ipc[s]))]
               /\ UNCHANGED crashed
    /\ UNCHANGED <<ctxDone, activeCount, bootErrors, closeRes, ipc, state, stop, running,
                   defers, panicking, live, closeSaw, closeActive>>
    /\ UNCHANGED <<monVars, createVars, closeVars, restVars, loopRet, switchToJob>>

\* The context passed to Pool.Loop is cancelled.
\* A wait that ends with the first goroutine that is done.
WaitDone_Any(pcs) == \E s \in Instances : pcs[s] = "exited"

\* wg.Wait(): every goroutine of Loop has called wg.Done().
WaitDone(pcs) == \A s \in Instances : pcs[s] = "exited"

\* Pool.Loop, line 83: the wait is over and Loop returns.
LoopReturn ==
    /\ Alive
    /\ ~loopRet
    /\ WaitDone(ipc)
    /\ loopRet' = TRUE
    /\ UNCHANGED <<ctxDone, activeCount, bootErrors, closeRes, crashed, ipc, state, job, stop,
                   cycleDone, running, defers, panicking, live, closeSaw, closeActive>>
    /\ UNCHANGED <<monVars, createVars, closeVars, restVars, freeVars>>

CancelLoop ==
    /\ Alive
    /\ ~ctxDone
    /\ ctxDone' = TRUE
    /\ UNCHANGED <<activeCount, bootErrors, closeRes, crashed, ipc, state, job, stop, cycleDone,
                   running, defers, panicking, live, closeSaw, closeActive>>
    /\ UNCHANGED <<monVars, createVars, closeVars, restVars, loopRet, freeVars>>

\* Pool.Close, lines 119-124
PoolClose ==
    /\ Alive
    /\ closeRes' = IF ClosePanics(activeCount) THEN "panic" ELSE "nil"
    /\ closeSaw' = {state[s] : s \in Instances}
    /\ closeActive' = activeCount
    /\ UNCHANGED <<ctxDone, activeCount, bootErrors, crashed, ipc, state, job, stop,
                   cycleDone, running, defers, panicking, live>>
    /\ UNCHANGED <<monVars, createVars, closeVars, restVars, loopRet, freeVars>>

----------------------------------------------------------------------------
\* qemu Instance.Close, lines 325-344 of the qemu file, on a handle of which
\* any field may be absent.
Fields == <<"qemu", "merger", "rpipe", "wpipe", "mon">>

\* The handles: each field is nil or holds a live object.
Handles ==
    [qemu : {"nil", "running"}, merger : {"nil", "open"}, rpipe : {"nil", "open"},
     wpipe : {"nil", "open"}, mon : {"nil", "open"}]

\* No field is tested before it is used.
Present_Always(f) == TRUE

\* Instance.Close, lines 326, 330, 333, 336, 339: if inst.<field> != nil
Present(f) == f # "nil"

\* What the calls Close makes on a field leave of it, whatever it was:
\* Process.Kill and Wait a process that has exited and is reaped (on one that
\* is already they return an error at once), OutputMerger.Wait a merger whose
\* streams are drained, Close a closed pipe or connection.
Released(field) ==
    CASE field = "qemu"   -> "exited"
      [] field = "merger" -> "drained"
      [] OTHER            -> "closed"

\* The position after field in Close.
After(field) ==
    IF \E i \in 1..(Len(Fields) - 1) : Fields[i] = field
    THEN Fields[(CHOOSE i \in 1..(Len(Fields) - 1) : Fields[i] = field) + 1]
    ELSE "ret"

CloseInit ==
    /\ h \in Handles
    /\ kpc = "idle"
    /\ kret = "none"
    /\ kcalls = 0
    /\ kops = 0
    /\ ksnap = h

\* Close is called, for the first time or again.
CloseCall ==
    /\ kpc = "idle"
    /\ kcalls < MaxCloses
    /\ kpc' = Fields[1]
    /\ kops' = 0
    /\ kret' = "none"
    /\ UNCHANGED <<h, kcalls, ksnap>>
    /\ UNCHANGED <<monVars, createVars, poolVars, restVars>>

\* One if statement of Close: the field is released if it is there; the use
\* of a field that is not there is a nil dereference.
CloseField(field) ==
    /\ kpc = field
    /\ IF Present(h[field])
       THEN IF h[field] = "nil"
            THEN kpc' = "fault" /\ UNCHANGED <<h, kops>>
            ELSE /\ h' = [h EXCEPT ![field] = Released(field)]
                 /\ kops' = kops + (IF h[field] # Released(field) THEN 1 ELSE 0)
                 /\ kpc' = After(field)
       ELSE kpc' = After(field) /\ UNCHANGED <<h, kops>>
    /\ UNCHANGED <<kret, kcalls, ksnap>>
    /\ UNCHANGED <<monVars, createVars, poolVars, restVars>>

\* lines 326-329
CloseQemu == CloseField("qemu")

\* lines 330-332
CloseMerger == CloseField("merger")

\* lines 333-335
CloseRpipe == CloseField("rpipe")

\* lines 336-338
CloseWpipe == CloseField("wpipe")

\* lines 339-341
CloseMon == CloseField("mon")

\* line 343: return nil
CloseReturn ==
    /\ kpc = "ret"
    /\ kret' = "nil"
    /\ kcalls' = kcalls + 1
    /\ ksnap' = IF kcalls = 0 THEN h ELSE ksnap
    /\ kpc' = "idle"
    /\ UNCHANGED <<h, kops>>
    /\ UNCHANGED <<monVars, createVars, poolVars, restVars>>

----------------------------------------------------------------------------
\* The trimming of a parsed Report, as one call.
TrimBytes == <<"a", "b", "c", "d", "e", "f", "g", "h">>

\* The Reports ParseFrom returns: an output and the bounds of the crash in it.
TrimReports ==
    {[nil |-> FALSE, Title |-> "BUG", Type |-> UnknownType,
      Output |-> SubSeq(TrimBytes, 1, n), StartPos |-> sp, EndPos |-> ep] :
        <<n, sp, ep>> \in {t \in (0..MaxTrimLen) \X (0..MaxTrimLen) \X (0..MaxTrimLen) :
                              t[2] <= t[3] /\ t[3] <= t[1]}}

TrimBefore == {0, 1, 2, beforeContextDefault}
TrimAfter == {0, 1, 2, afterContext}

TrimIdle ==
    /\ tin = NilRep /\ tout = NilRep
    /\ tbc = 0 /\ tac = 0
    /\ tpc = "idle"

TrimInit ==
    /\ tin \in TrimReports
    /\ tbc \in TrimBefore
    /\ tac \in TrimAfter
    /\ tout = NilRep
    /\ tpc = "in"

TrimReport ==
    /\ tpc = "in"
    /\ tout' = Trim(tin, tbc, tac)
    /\ tpc' = "out"
    /\ UNCHANGED <<tin, tbc, tac>>
    /\ UNCHANGED <<monVars, createVars, poolVars, closeVars, bootVars, apiVars>>

----------------------------------------------------------------------------
\* qemu boot: the goroutine that collects the boot output and its stop.

\* A send that has no receiver waiting, on a channel with a buffer.
SendCompletes_Buffered(receiving) == TRUE

\* bootOutputStop is made without a buffer: a send on it completes when the
\* collector is in its select.
SendCompletes(receiving) == receiving

BootIdle ==
    /\ bpc = "idle" /\ bssh = "none" /\ colpc = "gone"
    /\ stopq = 0 /\ closed = FALSE
    /\ mq = 0 /\ bootOutput = 0 /\ taken = 0
    /\ bret = "none"

\* boot has started the collector and waits for SSH.
BootInit ==
    /\ bpc = "wait" /\ bssh = "none" /\ colpc = "select"
    /\ stopq = 0 /\ closed = FALSE
    /\ mq = 0 /\ bootOutput = 0 /\ taken = 0
    /\ bret = "none"

\* The machine prints a chunk; the merger offers it on inst.merger.Output.
MergerOutput ==
    /\ bpc # "idle"
    /\ mq + taken < MaxBootChunks
    /\ mq' = mq + 1
    /\ UNCHANGED <<bpc, bssh, colpc, stopq, closed, bootOutput, bret, taken>>
    /\ UNCHANGED <<monVars, createVars, poolVars, closeVars, trimVars, apiVars>>

\* WaitForSSH returns.
SshDone ==
    /\ bpc = "wait"
    /\ \E r \in {"nil", "err"} : bssh' = r
    /\ bpc' = "send"
    /\ UNCHANGED <<colpc, stopq, closed, mq, bootOutput, bret, taken>>
    /\ UNCHANGED <<monVars, createVars, poolVars, closeVars, trimVars, apiVars>>

\* The select of the collector: one of the cases that are ready.
CollectSelect ==
    /\ colpc = "select"
    /\ \E c \in {"out", "stop"} :
          /\ c = "out" => mq > 0
          /\ c = "stop" => stopq > 0
          /\ IF c = "out"
             THEN /\ mq' = mq - 1
                  /\ taken' = taken + 1
                  /\ colpc' = "append"
                  /\ UNCHANGED stopq
             ELSE /\ stopq' = stopq - 1
                  /\ colpc' = "close"
                  /\ UNCHANGED <<mq, taken>>
    /\ UNCHANGED <<bpc, bssh, closed, bootOutput, bret>>
    /\ UNCHANGED <<monVars, createVars, poolVars, closeVars, trimVars, apiVars>>

\* bootOutput = append(bootOutput, out...)
CollectAppend ==
    /\ colpc = "append"
    /\ bootOutput' = bootOutput + 1
    /\ colpc' = "select"
    /\ UNCHANGED <<bpc, bssh, stopq, closed, mq, bret, taken>>
    /\ UNCHANGED <<monVars, createVars, poolVars, closeVars, trimVars, apiVars>>

\* bootOutputStop <- true, on either path; the collector that receives it
\* leaves its loop in the same step.
StopSend ==
    /\ bpc = "send"
    /\ SendCompletes(colpc = "select")
    /\ IF colpc = "select"
       THEN colpc' = "close" /\ UNCHANGED stopq
       ELSE stopq' = stopq + 1 /\ UNCHANGED colpc
    /\ bpc' = IF bssh = "err" THEN "recv" ELSE "ret"
    /\ UNCHANGED <<bssh, closed, mq, bootOutput, bret, taken>>
    /\ UNCHANGED <<monVars, createVars, poolVars, closeVars, trimVars, apiVars>>

\* close(bootOutputStop); return
CollectClose ==
    /\ colpc = "close"
    /\ closed' = TRUE
    /\ colpc' = "gone"
    /\ UNCHANGED <<bpc, bssh, stopq, mq, bootOutput, bret, taken>>
    /\ UNCHANGED <<monVars, createVars, poolVars, closeVars, trimVars, apiVars>>

\* <-bootOutputStop on the failure path: a value, or the closure.
StopRecv ==
    /\ bpc = "recv"
    /\ stopq > 0 \/ closed
    /\ stopq' = IF stopq > 0 THEN stopq - 1 ELSE stopq
    /\ bpc' = "read"
    /\ UNCHANGED <<bssh, colpc, closed, mq, bootOutput, bret, taken>>
    /\ UNCHANGED <<monVars, createVars, poolVars, closeVars, trimVars, apiVars>>

\* return vmimpl.MakeBootError(err, bootOutput)
BootError ==
    /\ bpc = "read"
    /\ bret' = bootOutput
    /\ bpc' = "ret"
    /\ UNCHANGED <<bssh, colpc, stopq, closed, mq, bootOutput, taken>>
    /\ UNCHANGED <<monVars, createVars, poolVars, closeVars, trimVars, apiVars>>

----------------------------------------------------------------------------
\* vm Pool.Create and vm Instance.Close, called on a pool that is not looping.
CreateResults == {"nil", "index", "tempdir", "ctor"}

ApiInit ==
    /\ objs = <<>>
    /\ apiErr = "none"

\* Pool.Create: the index is refused, or the directory or the machine cannot
\* be made, or an Instance is returned and counted.
ApiCreate ==
    /\ Len(objs) < MaxObjs
    /\ \E r \in CreateResults :
          /\ apiErr' = r
          /\ IF r = "nil"
             THEN /\ activeCount' = OnCreate(activeCount)
                  /\ objs' = Append(objs, 0)
             ELSE UNCHANGED <<activeCount, objs>>
    /\ UNCHANGED <<ctxDone, bootErrors, closeRes, crashed, ipc, state, job, stop, cycleDone,
                   running, defers, panicking, live, closeSaw, closeActive, freeVars,
                   loopRet>>
    /\ UNCHANGED <<monVars, createVars, closeVars, trimVars, bootVars>>

\* Instance.Close on the i-th Instance: the machine is closed, the directory
\* removed and onClose called.
ApiClose(i) ==
    /\ i \in 1..Len(objs)
    /\ objs[i] < MaxCloses
    /\ objs' = [objs EXCEPT ![i] = @ + 1]
    /\ activeCount' = OnClose(activeCount)
    /\ UNCHANGED apiErr
    /\ UNCHANGED <<ctxDone, bootErrors, closeRes, crashed, ipc, state, job, stop, cycleDone,
                   running, defers, panicking, live, closeSaw, closeActive, freeVars,
                   loopRet>>
    /\ UNCHANGED <<monVars, createVars, closeVars, trimVars, bootVars>>

----------------------------------------------------------------------------
\* The sizes of retained output a Run is configured with.
OutputSizes == {1, maxErrorLength, beforeContextDefault}

\* The scan of the window: every chunk shape, every retained-output size.
InitScan ==
    /\ MonInit({ExitNormal}, OutputSizes, {FALSE}, {FALSE})
    /\ CreateInit
    /\ PoolInit
    /\ ready = NoChunk
    /\ TrimIdle /\ BootIdle /\ ApiInit
    /\ CloseInit
    /\ h = [f \in {"qemu", "merger", "rpipe", "wpipe", "mon"} |-> "nil"]
    /\ job = [s \in Instances |-> NoJob]

NextScan ==
    \/ RunStart
    \/ RecvOutput(ScanChunks, MaxChunks)
    \/ WaitRecvOutput(ScanChunks, MaxChunks)
    \/ WaitEnd

SpecScan == InitScan /\ [][NextScan]_vars

\* The event loop of the monitor: every exit policy, every event source.
InitMon ==
    /\ MonInit(0..7, {beforeContextDefault}, BOOLEAN, BOOLEAN)
    /\ CreateInit
    /\ PoolInit
    /\ ready = NoChunk
    /\ TrimIdle /\ BootIdle /\ ApiInit
    /\ CloseInit
    /\ h = [f \in {"qemu", "merger", "rpipe", "wpipe", "mon"} |-> "nil"]
    /\ job = [s \in Instances |-> NoJob]

NextMon ==
    \/ RunStart
    \/ RecvExit
    \/ RecvOutput(MonChunks, MaxMonChunks)
    \/ OutcClosed
    \/ RecvInjected
    \/ OnTick
    \/ Shutdown
    \/ RecvShutdown
    \/ WaitRecvOutput(MonChunks, MaxMonChunks)
    \/ WaitEnd
    \/ SecondExtract

SpecMon == InitMon /\ [][NextMon]_vars

\* The provisioning retry loop.
InitCreate ==
    /\ MonInit({ExitNormal}, {beforeContextDefault}, {FALSE}, {FALSE})
    /\ CreateInit
    /\ PoolInit
    /\ ready = NoChunk
    /\ TrimIdle /\ BootIdle /\ ApiInit
    /\ CloseInit
    /\ h = [f \in {"qemu", "merger", "rpipe", "wpipe", "mon"} |-> "nil"]
    /\ job = [s \in Instances |-> NoJob]

NextCreate == CreateAttempt

SpecCreate == InitCreate /\ [][NextCreate]_vars

\* The pool and its slots.
InitPool ==
    /\ MonInit({ExitNormal}, {beforeContextDefault}, {FALSE}, {FALSE})
    /\ CreateInit
    /\ PoolInit
    /\ ready = NoChunk
    /\ TrimIdle /\ BootIdle /\ ApiInit
    /\ CloseInit
    /\ h = [f \in {"qemu", "merger", "rpipe", "wpipe", "mon"} |-> "nil"]

NextPool ==
    \/ \E s \in Instances :
          \/ LoopCheck(s)
          \/ Reset(s)
          \/ StatusBooting(s)
          \/ Create(s)
          \/ SendBootError(s)
          \/ StatusWaiting(s)
          \/ ReadJob(s)
          \/ StatusRunning(s)
          \/ JobReturn(s)
          \/ CloseObj(s)
          \/ StatusOffline(s)
          \/ Cancel(s)
          \/ Returned(s)
          \/ Free(s)
    \/ RecvBootError
    \/ CancelLoop
    \/ LoopReturn
    \/ PoolClose

SpecPool == InitPool /\ [][NextPool]_vars

\* Close, called up to MaxCloses times on every handle.
InitClose ==
    /\ MonInit({ExitNormal}, {beforeContextDefault}, {FALSE}, {FALSE})
    /\ CreateInit
    /\ PoolInit
    /\ ready = NoChunk
    /\ TrimIdle /\ BootIdle /\ ApiInit
    /\ job = [s \in Instances |-> NoJob]
    /\ CloseInit

NextClose ==
    \/ CloseCall
    \/ CloseQemu
    \/ CloseMerger
    \/ CloseRpipe
    \/ CloseWpipe
    \/ CloseMon
    \/ CloseReturn

SpecClose == InitClose /\ [][NextClose]_vars

\* The trimming of every parsed Report, with every context size.
InitTrim ==
    /\ MonInit({ExitNormal}, {beforeContextDefault}, {FALSE}, {FALSE})
    /\ CreateInit
    /\ PoolInit
    /\ ready = NoChunk
    /\ TrimInit /\ BootIdle /\ ApiInit
    /\ CloseInit
    /\ h = [f \in {"qemu", "merger", "rpipe", "wpipe", "mon"} |-> "nil"]
    /\ job = [s \in Instances |-> NoJob]

NextTrim == TrimReport

SpecTrim == InitTrim /\ [][NextTrim]_vars

\* One boot, with the collector and the machine's output.
InitBoot ==
    /\ MonInit({ExitNormal}, {beforeContextDefault}, {FALSE}, {FALSE})
    /\ CreateInit
    /\ PoolInit
    /\ ready = NoChunk
    /\ TrimIdle /\ BootInit /\ ApiInit
    /\ CloseInit
    /\ h = [f \in {"qemu", "merger", "rpipe", "wpipe", "mon"} |-> "nil"]
    /\ job = [s \in Instances |-> NoJob]

NextBoot ==
    \/ MergerOutput
    \/ SshDone
    \/ CollectSelect
    \/ CollectAppend
    \/ StopSend
    \/ CollectClose
    \/ StopRecv
    \/ BootError

SpecBoot == InitBoot /\ [][NextBoot]_vars

\* Pool.Create and Instance.Close, in every order.
InitApi ==
    /\ MonInit({ExitNormal}, {beforeContextDefault}, {FALSE}, {FALSE})
    /\ CreateInit
    /\ PoolInit
    /\ ready = NoChunk
    /\ TrimIdle /\ BootIdle /\ ApiInit
    /\ CloseInit
    /\ h = [f \in {"qemu", "merger", "rpipe", "wpipe", "mon"} |-> "nil"]
    /\ job = [s \in Instances |-> NoJob]

NextApi ==
    \/ ApiCreate
    \/ \E i \in 1..MaxObjs : ApiClose(i)

SpecApi == InitApi /\ [][NextApi]_vars

\* The exit of the command and a crash chunk that waits on outc, both ready
\* when the loop is entered: every exit policy, every order.
InitRace ==
    /\ MonInit(0..7, {beforeContextDefault}, {FALSE}, {FALSE})
    /\ CreateInit
    /\ PoolInit
    /\ ready = Chunk("sig", 0)
    /\ TrimIdle /\ BootIdle /\ ApiInit
    /\ CloseInit
    /\ h = [f \in {"qemu", "merger", "rpipe", "wpipe", "mon"} |-> "nil"]
    /\ job = [s \in Instances |-> NoJob]

NextRace ==
    \/ RunStart
    \/ RecvExit
    \/ RecvOutput(MonChunks, MaxMonChunks)
    \/ OnTick
    \/ Shutdown
    \/ RecvShutdown
    \/ WaitRecvOutput(MonChunks, MaxMonChunks)
    \/ WaitEnd
    \/ SecondExtract

SpecRace == InitRace /\ [][NextRace]_vars

\* The marker in the output, whole and in two chunks, and the ticker.
InitMark ==
    /\ MonInit({ExitNormal}, {beforeContextDefault}, {FALSE}, {FALSE})
    /\ CreateInit
    /\ PoolInit
    /\ ready = NoChunk
    /\ TrimIdle /\ BootIdle /\ ApiInit
    /\ CloseInit
    /\ h = [f \in {"qemu", "merger", "rpipe", "wpipe", "mon"} |-> "nil"]
    /\ job = [s \in Instances |-> NoJob]

NextMark ==
    \/ RunStart
    \/ RecvOutput(MarkChunks, MaxChunks)
    \/ OnTick

SpecMark == InitMark /\ [][NextMark]_vars

\* The steps of the goroutine of slot s that are its own: everything but the
\* return of the job, which the job decides.
SlotStep(s) ==
    \/ LoopCheck(s)
    \/ Reset(s)
    \/ StatusBooting(s)
    \/ Create(s)
    \/ SendBootError(s)
    \/ StatusWaiting(s)
    \/ ReadJob(s)
    \/ StatusRunning(s)
    \/ CloseObj(s)
    \/ StatusOffline(s)
    \/ Cancel(s)
    \/ Returned(s)

\* The pool with goroutines that are scheduled: a slot whose next step stays
\* possible takes it, and a slot blocked in the send on pool.BootErrors gets
\* its turn when room is made again and again (blocked senders are served in
\* their order of arrival).  Nothing is assumed of the jobs nor of the
\* receiver of pool.BootErrors.
SpecPoolFair ==
    /\ SpecPool
    /\ \A s \in Instances : WF_vars(SlotStep(s)) /\ SF_vars(SendBootError(s))
    /\ WF_vars(LoopReturn)

----------------------------------------------------------------------------
\* Properties of the monitor.

\* The line of the stream that ends with the signature just received is at
\* most maxErrorLength bytes long, from its start to the end of the signature.
SigLineFits(cs) ==
    LET st == Stream(cs) IN
    Len(st) - LineStart(st, Len(st) - Len(Sig)) <= maxErrorLength

\* The last two chunks scanned are the two parts of one split signature.
SplitScanned ==
    /\ nscanned >= 2
    /\ nscanned = Len(received)
    /\ \E k \in 1..(Len(Sig) - 1) :
          /\ received[nscanned - 1] = Chunk("head", k)
          /\ received[nscanned] = Chunk("tail", k)
    /\ SigLineFits(received)

\* C1, as claimed: after every crash-free appendOutput, matchPos is 0 or the
\* byte before it is a newline.
C1_MatchPosAtLineStart ==
    mpc = "loop" => (matchPos = 0 \/ output[matchPos] = NL)

\* C1, amended: after every crash-free appendOutput, matchPos is 0, or the
\* byte before it is a newline, or the walk back ran its maxErrorLength steps
\* without meeting a newline: matchPos is len(output) - 2*maxErrorLength and
\* the maxErrorLength bytes from matchPos on hold no newline.
C1_MatchPosLineStartOrBounded ==
    mpc = "loop" =>
        \/ matchPos = 0
        \/ output[matchPos] = NL
        \/ /\ matchPos = Len(output) - 2 * maxErrorLength
           /\ \A q \in (matchPos + 1)..(matchPos + maxErrorLength) : output[q] # NL

\* C1, witness: a scan start inside the buffer, right after a newline.
C1_Witness ==
    mpc = "loop" /\ nscanned > 0 /\ matchPos > 0 /\ output[matchPos] = NL

\* C2, as claimed: between the steps of one Run the buffer holds at most
\* 2 * beforeContext bytes.
C2_BufferBounded == Len(output) <= 2 * beforeContext

\* C2, amended: while the Run is in its select loop, before extraction
\* begins, the buffer holds at most 2 * beforeContext bytes.
C2_BufferBoundedInLoop == mpc = "loop" => Len(output) <= 2 * beforeContext

\* C2, witness: the loop goes on with a buffer that has been compacted.
C2_Witness ==
    mpc = "loop" /\ nscanned > 0 /\ 0 < Len(output)
    /\ Len(output) < Len(Stream(received))

\* C3: a Monitor returns at most one Report from extractError; inside
\* monitorExecution extractError is entered at most once, and an entry after
\* that panics and adds no Report.
C3_ExtractOnce ==
    /\ [](/\ reports <= 1
          /\ mpc \in {"loop", "wait", "done"} => extractEntries <= 1
          /\ extractEntries >= 2 => mpc = "panic")
    /\ [][mpc' = "panic" => mpc = "done" /\ reports' = reports /\ rep' = rep]_vars

\* C3, witness: a second entry into extractError has panicked.
C3_Witness == mpc = "panic" /\ extractEntries = 2 /\ reports = 1

\* C4: policy with ExitNormal, errc delivers nil, no crash pattern in the scan
\* window of the final buffer (trailing output included): the Report is nil
\* and Diagnose was not called.
C4_CleanExitNilReport ==
    (/\ mpc = "done"
     /\ exitVal = "nil"
     /\ HasBit(exit, ExitNormal)
     /\ ~WindowHasCrash(output, matchPos))
    => (rep.nil /\ diagCalls = 0)

\* C4, witness: a clean exit after some output, with a nil Report.
C4_Witness ==
    /\ mpc = "done" /\ exitVal = "nil" /\ HasBit(exit, ExitNormal)
    /\ Len(received) > nscanned /\ nscanned > 0
    /\ rep.nil

\* A Type for timeouts and one for silence, which the claims speak of.
TimeoutType == "Timeout"
NoOutputType == "NoOutput"

TimedOut == mpc = "done" /\ exitVal = "timeout" /\ ~HasBit(exit, ExitTimeout)

\* C5, as claimed: policy without ExitTimeout, errc delivers ErrTimeout: the
\* Report is not nil, its Type the timeout type, its Title "timed out".
C5_TimeoutReportTyped ==
    TimedOut => (~rep.nil /\ rep.Type = TimeoutType /\ rep.Title = timeoutCrash)

\* C5, amended: policy without ExitTimeout, errc delivers ErrTimeout: the
\* Report is not nil; it is the crash parsed from the output if the scan
\* window of the final buffer holds a crash pattern, and else has Title
\* "timed out" and Type crash.UnknownType.
C5_TimeoutReportUnknownType ==
    TimedOut =>
        /\ ~rep.nil
        /\ IF WindowHasCrash(output, matchPos)
           THEN rep.Title = CrashTitle /\ rep.Type = CrashType
           ELSE rep.Title = timeoutCrash /\ rep.Type = UnknownType

\* C5, witness: a Run that ended with the "timed out" Report.
C5_Witness == TimedOut /\ rep.Title = timeoutCrash

\* C6, as claimed: the ticker finds the deadline passed: the Report has Title
\* "no output from test machine", Type no-output, and Diagnose is never called.
C6_NoOutputNoDiagnose ==
    (mpc = "done" /\ cause = "noout") =>
        (rep.Title = noOutputCrash /\ rep.Type = NoOutputType /\ diagCalls = 0)

\* C6, amended: the ticker finds the deadline passed: the Report has Title
\* "no output from test machine" and Type crash.UnknownType, Diagnose is
\* called exactly once, and the wait for trailing output is skipped.
C6_NoOutputNoWait ==
    /\ cause = "noout" => mpc # "wait"
    /\ (mpc = "done" /\ cause = "noout") =>
          /\ now - lastExecuteTime > NoOutput
          /\ ~rep.nil
          /\ rep.Title = noOutputCrash
          /\ rep.Type = UnknownType
          /\ diagCalls = 1

\* C6, witness: a Run ended by the ticker after some output.
C6_Witness == mpc = "done" /\ cause = "noout" /\ nscanned > 0

\* The Report of a lost connection.
IsLostConnection(r) ==
    ~r.nil /\ r.Title = lostConnectionCrash /\ r.Type = LostConnection

\* C12: policy without ExitNormal, errc delivers nil, no crash pattern in the
\* scan window of the final buffer (trailing output included): the Report has
\* Title "lost connection to test machine" and Type crash.LostConnection.
C12_CleanExitLostConnection ==
    (/\ mpc = "done"
     /\ exitVal = "nil"
     /\ ~HasBit(exit, ExitNormal)
     /\ ~WindowHasCrash(output, matchPos))
    => IsLostConnection(rep)

\* C12, witness: a clean exit the policy does not allow, after scanned and
\* trailing output, reported as a lost connection.
C12_Witness ==
    /\ mpc = "done" /\ exitVal = "nil" /\ ~HasBit(exit, ExitNormal)
    /\ Len(received) > nscanned /\ nscanned > 0
    /\ rep.Type = LostConnection

\* C13: errc delivers an error that is neither nil nor ErrTimeout, no crash
\* pattern in the scan window of the final buffer (trailing output included):
\* without ExitError in the policy the Report is the lost-connection Report;
\* with ExitError the Report is nil and Diagnose was not called.
C13_ErrorExitByPolicy ==
    (/\ mpc = "done"
     /\ exitVal = "error"
     /\ ~WindowHasCrash(output, matchPos))
    => IF HasBit(exit, ExitError)
       THEN rep.nil /\ diagCalls = 0
       ELSE IsLostConnection(rep) /\ diagCalls = 1

\* C13, witness: an exit with an error that the policy allows, after scanned
\* and trailing output, with a nil Report.
C13_Witness ==
    /\ mpc = "done" /\ exitVal = "error" /\ HasBit(exit, ExitError)
    /\ Len(received) > nscanned /\ nscanned > 0
    /\ rep.nil

\* C14: policy with ExitTimeout, errc delivers ErrTimeout: monitorExecution
\* returns nil in the same step, without entering extractError: no Diagnose,
\* no wait for trailing output (nothing is read after the last scanned
\* chunk), no Report.
C14_AllowedTimeoutNoExtraction ==
    (exitVal = "timeout" /\ HasBit(exit, ExitTimeout))
    => /\ mpc = "done"
       /\ cause = "exit"
       /\ rep.nil
       /\ extractEntries = 0
       /\ ~extractCalled
       /\ diagCalls = 0
       /\ reports = 0
       /\ Len(received) = nscanned

\* C14, witness: an allowed timeout after some output.
C14_Witness ==
    /\ mpc = "done" /\ exitVal = "timeout" /\ HasBit(exit, ExitTimeout)
    /\ nscanned > 0 /\ rep.nil

\* C15: the closure of outc does not end the Run.  The select loop reads the
\* closure at most once; that step leaves the loop running and produces
\* nothing; after it nothing more is read from outc, and the loop returns only
\* on a value from errc, on the ticker finding the deadline passed, or on
\* Shutdown.
C15_OutcClosureNotTerminal ==
    /\ [](closeReads <= 1)
    /\ [][closeReads' # closeReads =>
            /\ mpc' = "loop" /\ ~outcOpen'
            /\ rep' = rep /\ reports' = reports
            /\ extractEntries' = extractEntries /\ output' = output]_vars
    /\ [][~outcOpen => (received' = received /\ nscanned' = nscanned)]_vars
    /\ [][(~outcOpen /\ mpc = "loop" /\ mpc' # "loop")
            => cause' \in {"exit", "noout", "shutdown"}]_vars

\* C15, witness: outc was closed after some output, the loop went on, and
\* the Run ended later on a value from errc.
C15_Witness ==
    mpc = "done" /\ closeReads = 1 /\ nscanned > 0 /\ cause = "exit" /\ now > 0

\* C16, as claimed: Shutdown has priority over the other events: when the
\* select loop ends with Shutdown raised, the Report is nil and extractError
\* has not been entered.
C16_ShutdownHasPriority ==
    shutdownAtEnd => (rep.nil /\ extractEntries = 0 /\ reports = 0)

\* C16, amended: when the select loop takes its Shutdown case it returns a
\* nil Report without extraction: no Diagnose, no wait for trailing output,
\* no Report; and the loop never takes that case before Shutdown is raised.
\* (The select has no priorities: with Shutdown raised, a value on errc, a
\* chunk with a crash or the ticker may be taken instead and start the
\* extraction.)
C16_ShutdownCaseAborts ==
    /\ cause = "shutdown" =>
          /\ mpc = "done" /\ shutdownAtEnd
          /\ rep.nil /\ reports = 0
          /\ extractEntries = 0 /\ ~extractCalled /\ diagCalls = 0
          /\ Len(received) = nscanned
    /\ shutdownAtEnd => shutdown

\* C16, witness: a Run aborted by Shutdown after some output.
C16_Witness ==
    mpc = "done" /\ cause = "shutdown" /\ nscanned > 0 /\ exitVal = "none"

\* An EarlyFinishCb was supplied to the Run: it is still set, or was called.
Supplied == finished \/ finishedAt # NeverCalled

\* C17: a supplied EarlyFinishCb is called exactly once per Run whose monitor
\* is made (the remote command has started), on every way out of the select
\* loop.  When extractError is entered, the call is made
\* there, before any call of Diagnose, before the wait for trailing output
\* and before the Report is assembled; otherwise (Shutdown, an allowed
\* timeout) it is made at the return of monitorExecution.  It is never called
\* twice, and never while the loop goes on.
C17_EarlyFinishExactlyOnce ==
    /\ finishedCalls <= 1
    /\ finishedCalls = 1 <=> finishedAt # NeverCalled
    /\ mpc = "loop" => finishedCalls = 0
    /\ mpc = "start" => finishedCalls = 0
    /\ (Supplied /\ mpc \in {"wait", "done", "panic"} /\ runErr = "nil") => finishedCalls = 1
    /\ (Supplied /\ extractEntries >= 1) => finishedAt = CallAt("extract", 0, 0)
    /\ (Supplied /\ mpc = "done" /\ extractEntries = 0 /\ runErr = "nil") =>
          /\ finishedAt = CallAt("return", 0, 0)
          /\ cause \in {"shutdown", "exit"}

\* C17, witness: a Run whose callback was called as extraction began, and
\* which then diagnosed, took trailing output and returned a Report.
C17_Witness ==
    /\ mpc = "done" /\ finishedAt.at = "extract" /\ finishedCalls = 1
    /\ diagCalls = 1 /\ Len(received) > nscanned /\ ~rep.nil

\* C7, as claimed: a signature in a line of at most maxErrorLength bytes,
\* split across two consecutive chunks, is detected when its second part is
\* scanned, whatever the OutputSize: the select loop does not go on.
C7_SplitSignatureDetected == SplitScanned => mpc # "loop"

----------------------------------------------------------------------------
\* Properties of qemu Pool.Create.

\* C8: pool.ctor fails with "Address already in use" twice and then succeeds:
\* Create goes on after each failure and returns the instance of the third
\* call with a nil error.
C8_RetriesAddressInUse ==
    /\ (cattempts \in {1, 2} /\ cfirst = [n \in 1..cattempts |-> ErrInUse])
          => (cpc = "loop" /\ cret.err = NoErr)
    /\ (cattempts = 3 /\ cfirst = <<ErrInUse, ErrInUse, NoErr>>)
          => (cpc = "done" /\ cret = [inst |-> 3, err |-> NoErr])

\* C8, witness: Create has returned the instance of the third call.
C8_Witness ==
    cpc = "done" /\ cfirst = <<ErrInUse, ErrInUse, NoErr>> /\ cret.inst = 3

\* C10, as claimed: Create calls pool.ctor at most 1000 times.
C10_AtMost1000Attempts == cattempts <= MaxRetries

\* C10, amended: Create calls pool.ctor at most 1001 times, the first call
\* and 1000 retries; the 1001st call ends it, and when that call fails too
\* (every call failed with a known-transient error) its error is returned.
C10_AtMost1001Attempts ==
    /\ cattempts <= MaxRetries + 1
    /\ iter <= MaxRetries
    /\ cattempts = MaxRetries + 1 =>
          /\ cpc = "done"
          /\ cret.inst = NoInst => cret.err \in CtorErrors

\* C10, witness: the 1001st call failed with a known-transient error, which
\* Create returned.
C10_Witness ==
    /\ cpc = "done" /\ cattempts = MaxRetries + 1
    /\ cret.inst = NoInst /\ Contains(cret.err, resourceBusy)

\* The error text matches one of the known-transient substrings.
KnownTransient(err) ==
    \/ Contains(err, hostForwarding)
    \/ Contains(err, resourceBusy)
    \/ Contains(err, addressInUse)

\* C11: a failure of pool.ctor whose text matches none of the known-transient
\* substrings ends Create at once, whatever the number of transient failures
\* before it: Create returns that error and no instance, and pool.ctor is not
\* called again.
C11_OtherFailureFatal ==
    /\ []((cattempts > 0 /\ clast # NoErr /\ ~KnownTransient(clast))
            => (cpc = "done" /\ cret = [inst |-> NoInst, err |-> clast]))
    /\ [][cpc = "done" => (cattempts' = cattempts /\ cret' = cret)]_vars

\* C11, witness: two transient failures, then one that is not: Create has
\* returned the third error.
C11_Witness ==
    /\ cpc = "done" /\ cattempts = 3
    /\ KnownTransient(cfirst[1]) /\ KnownTransient(cfirst[2])
    /\ cfirst[3] = ErrStart /\ cret = [inst |-> NoInst, err |-> ErrStart]

----------------------------------------------------------------------------
\* Properties of the vm Pool.

\* The state changes of the cycle of a slot.
Cycle ==
    {<<StateOffline, StateBooting>>, <<StateBooting, StateWaiting>>,
     <<StateWaiting, StateRunning>>, <<StateRunning, StateOffline>>,
     <<StateBooting, StateOffline>>}

\* The slot is held up by what is not its own: its job does not return, or
\* its boot error finds no room in pool.BootErrors.
HeldUp(s) == ipc[s] = "job" \/ ipc[s] = "bootErr"

\* The pool is over: the context is cancelled, Pool.Close was called, or the
\* process has panicked.
Over == ctxDone \/ ~Alive

\* C18, as claimed: the state of a slot changes only along Offline ->
\* Booting -> Waiting -> Running -> Offline, or Booting -> Offline; and the
\* cycle repeats while the context is alive (a slot boots again and again,
\* unless the pool is over or the slot is held up for ever).
C18_OnlyCycleTransitions ==
    /\ [][\A s \in Instances :
            state'[s] # state[s] => <<state[s], state'[s]>> \in Cycle]_vars
    /\ \A s \in Instances :
          []<>(ipc[s] = "create") \/ <>Over \/ <>[]HeldUp(s)

\* C18, amended: the state of a slot changes only along Offline -> Booting ->
\* Waiting -> Running -> Offline, or Booting -> Offline after a failed boot,
\* or Waiting -> Offline when runInstance panics on a nil job and its deferred
\* status(StateOffline) runs; and the cycle repeats while the context is
\* alive, the jobs return and the boot errors are taken.
C18_CycleOrPanicTransitions ==
    /\ [][\A s \in Instances :
            state'[s] # state[s] =>
               \/ <<state[s], state'[s]>> \in Cycle \ {<<StateBooting, StateOffline>>}
                  /\ ~panicking[s]
               \/ <<state[s], state'[s]>> = <<StateBooting, StateOffline>>
                  /\ ~panicking[s] /\ live[s] = 0
               \/ <<state[s], state'[s]>> = <<StateWaiting, StateOffline>>
                  /\ panicking[s]]_vars
    /\ \A s \in Instances :
          []<>(ipc[s] = "create") \/ <>Over \/ <>[]HeldUp(s)

\* C18, witness: runInstance has panicked on a nil job in Waiting, and its
\* deferred status(StateOffline) has run, before the process ends.
C18_Witness ==
    \E s \in Instances :
        panicking[s] /\ state[s] = StateOffline /\ defers[s] = <<"cancel">> /\ Alive

\* What holds of every boot failure, on its way to pool.BootErrors: the
\* failure of slot s touches no other slot and ends nothing; the slot goes on
\* only once its error is in the channel, and is Offline again when its cycle
\* is over; a slot's loop ends only when the context is cancelled.
BootFailureContained ==
    /\ [](\A s \in Instances :
            ipc[s] \in {"check", "reset", "booting", "exited"} => state[s] = StateOffline)
    /\ [][\A s \in Instances :
            /\ (ipc[s] = "create" /\ ipc'[s] = "bootErr") =>
                  /\ crashed' = "none" /\ closeRes' = closeRes
                  /\ \A t \in Instances \ {s} : ipc'[t] = ipc[t] /\ state'[t] = state[t]
            /\ (ipc[s] = "bootErr" /\ ipc'[s] # "bootErr") =>
                  bootErrors' = bootErrors + 1 /\ ~panicking'[s]
            /\ (ipc[s] # "exited" /\ ipc'[s] = "exited") => ctxDone]_vars

\* C19, as claimed: after a failed Pool.Create the error is delivered on
\* pool.BootErrors, the state of the slot returns to Offline and, while the
\* context is not cancelled, the slot starts another boot attempt; the other
\* slots are not affected.
C19_BootFailureNotFatal ==
    /\ BootFailureContained
    /\ \A s \in Instances :
          (ipc[s] = "bootErr") ~> (ipc[s] = "create" \/ Over)

\* C19, amended: the same, provided the owner of the pool receives from
\* pool.BootErrors: once the buffer is full and stays full, the send at line
\* 100 blocks for ever, with the slot in Booting.
C19_BootFailureNotFatalIfTaken ==
    /\ BootFailureContained
    /\ \/ \A s \in Instances : (ipc[s] = "bootErr") ~> (ipc[s] = "create" \/ Over)
       \/ <>[](bootErrors = BootErrorsCap)

\* C19, witness: a boot error is in the channel, and the slot that sent it
\* is at its next boot attempt, as is every other slot.
C19_Witness ==
    bootErrors = 1 /\ \A s \in Instances : ipc[s] = "create" /\ state[s] = StateBooting

\* C20: the handle that Pool.Create returned in a cycle is closed on every
\* way out of Running before the state of the slot becomes Offline, and
\* before the next Pool.Create of the slot: a slot has at most one live
\* handle, none while it is Offline and none from the end of a cycle to the
\* next Pool.Create.
C20_HandleClosedBeforeOffline ==
    /\ [](\A s \in Instances :
            /\ live[s] <= 1
            /\ state[s] = StateOffline => live[s] = 0
            /\ ipc[s] \in {"check", "reset", "booting", "create", "bootErr", "exited"}
                  => live[s] = 0)
    /\ [][\A s \in Instances :
            /\ (state[s] = StateRunning /\ state'[s] # StateRunning) =>
                  (state'[s] = StateOffline /\ live[s] = 0)
            /\ live'[s] > live[s] => live[s] = 0]_vars

\* C20, witness: the job of a slot has returned and its handle is closed,
\* with the slot still Running.
C20_Witness ==
    \E s \in Instances :
        /\ state[s] = StateRunning /\ ipc[s] = "unwind" /\ live[s] = 0
        /\ defers[s] = <<"offline", "cancel">>

\* C9, as claimed: Pool.Close returns nil only if every slot is Offline.
C9_CloseNilOnlyOffline == closeRes = "nil" => closeSaw \subseteq {StateOffline}

\* C9, amended: Pool.Close panics exactly when pool.activeCount is not 0, that
\* is while an Instance that Pool.Create returned is not closed yet: always
\* with a slot in Waiting, and with a slot in Running until its job has
\* returned and obj.Close has run (a slot whose runInstance is unwinding the
\* nil-job panic excepted: its handle is closed while it is still Waiting).
\* With a slot in Booting, or in Running after obj.Close, it may return nil.
C9_ClosePanicsIffActive ==
    /\ closeRes = "panic" <=> (closeRes # "none" /\ closeActive # 0)
    /\ activeCount = Cardinality({s \in Instances : live[s] # 0})
    /\ \A s \in Instances :
          (state[s] = StateWaiting /\ ~panicking[s]) => activeCount # 0
    /\ \A s \in Instances :
          (state[s] = StateRunning /\ ipc[s] = "job") => activeCount # 0

\* C9, witness: Pool.Close has panicked with a slot in Waiting.
C9_Witness == closeRes = "panic" /\ StateWaiting \in closeSaw

----------------------------------------------------------------------------
\* C21: a free(j) on a slot whose job is in flight (read at line 109 and not
\* yet returned) replaces the job assigned to the slot by j and calls the
\* slot's stop function: when free returns, the assigned job is j and the
\* context of the cycle the job runs in is cancelled.  So a slot never runs a
\* job other than the assigned one in a context that is not cancelled.
C21_FreeCancelsInFlight ==
    /\ [](\A s \in Instances :
            (running[s] # NoJob /\ job[s] # running[s]) => cycleDone[s])
    /\ [][\A s \in Instances :
            (running[s] # NoJob /\ (freed'[s] # freed[s] \/ job'[s] # job[s])) =>
                /\ job'[s] = freed'[s]
                /\ cycleDone'[s]
                /\ handoff'[s] # "none"]_vars

\* C21, witness: job A of slot 1 is in flight, free(B) has returned, B is
\* the assigned job and the context of A is cancelled.
C21_Witness ==
    /\ ipc[1] = "job" /\ running[1] = "A" /\ state[1] = StateRunning
    /\ freed[1] = "B" /\ job[1] = "B" /\ cycleDone[1] /\ ~ctxDone

\* The slot is in the job that free gave it last.
InvokedFreed(s) == ipc[s] = "job" /\ running[s] = freed[s]

\* C22: once free(j) has returned, every cycle of the slot that reads its
\* job afterwards invokes j, never the job it replaced, and the slot does
\* invoke j (again and again, as its cycle repeats), provided the pool is not
\* over, the boots succeed, a job returns once its context is cancelled, and
\* j is not itself replaced between its read and its call.
C22_NewJobInvoked ==
    /\ [][\A s \in Instances :
            (running'[s] # running[s] /\ running'[s] # NoJob /\ freed[s] # NoJob) =>
                running'[s] = freed[s]]_vars
    /\ \A s \in Instances :
          \/ []<>(freed[s] = NoJob \/ InvokedFreed(s))
          \/ <>Over
          \/ <>[](ipc[s] = "job" /\ cycleDone[s])
          \/ []<>(ipc[s] = "bootErr")
          \/ []<>(ipc[s] = "run" /\ running[s] # freed[s])

\* C22, witness: free(B) returned while A was set, and the slot is in B in a
\* cycle of its own, not cancelled.
C22_Witness ==
    /\ InvokedFreed(1) /\ freed[1] = "B" /\ ~cycleDone[1] /\ ~ctxDone /\ Alive
    /\ state[1] = StateRunning

\* C23, as claimed: every call of free returns, its select having sent the
\* job or taken the default case, whether or not a reset has made the channel
\* and whether or not anybody receives.
C23_FreeAlwaysReturns ==
    /\ crashed # "stop is nil"
    /\ \A s \in Instances : handoff[s] \in {"none", "sent", "default"}

\* A step of free on slot s that returns: it replaces the job, cancels the
\* cycle through inst.stop without the slot's own deferred cancel, or goes
\* through the select for the first time.
FreeStep(s) ==
    \/ freed'[s] # freed[s]
    \/ job'[s] # job[s]
    \/ handoff'[s] # handoff[s]
    \/ cycleDone'[s] /\ ~cycleDone[s] /\ defers' = defers

\* C24: a free on slot s, and the call of the slot's stop function it makes,
\* cancels only the context of the current cycle of s: the state, job,
\* cycle context, handle, stop function and position of every other slot,
\* the context of the pool and the count of active instances are unchanged.
C24_FreeTouchesOneSlot ==
    [][\A s \in Instances :
         FreeStep(s) =>
            /\ ctxDone' = ctxDone /\ activeCount' = activeCount
            /\ bootErrors' = bootErrors /\ closeRes' = closeRes
            /\ \A t \in Instances \ {s} :
                  /\ state'[t] = state[t] /\ job'[t] = job[t]
                  /\ cycleDone'[t] = cycleDone[t] /\ live'[t] = live[t]
                  /\ stop'[t] = stop[t] /\ ipc'[t] = ipc[t]
                  /\ running'[t] = running[t] /\ switchToJob'[t] = switchToJob[t]]_vars

\* C24, witness: both slots are in their jobs; a free on slot 1 has cancelled
\* its cycle, and the cycle of slot 2, never freed, is not cancelled.
C24_Witness ==
    /\ ipc[1] = "job" /\ freed[1] # NoJob /\ cycleDone[1]
    /\ ipc[2] = "job" /\ freed[2] = NoJob /\ ~cycleDone[2] /\ state[2] = StateRunning
    /\ ~ctxDone /\ Alive

\* C28: a slot that reads a nil job at the run step panics: it takes no
\* further step of the cycle but its deferred calls, it calls nothing and its
\* state never becomes Running; a slot about to call, or in, a job has a job
\* that is not nil.
C28_NilJobPanics ==
    /\ [](\A s \in Instances :
            /\ ipc[s] \in {"run", "job"} => running[s] # NoJob /\ ~panicking[s]
            /\ panicking[s] =>
                  /\ running[s] = NoJob /\ state[s] # StateRunning
                  /\ ipc[s] = "unwind")
    /\ [](crashed = "job is nil" => \E s \in Instances : panicking[s] /\ defers[s] = <<>>)
    /\ [][\A s \in Instances :
            /\ (ipc[s] = "readjob" /\ job[s] = NoJob /\ ipc'[s] # ipc[s]) => panicking'[s]
            /\ (state'[s] = StateRunning /\ state[s] # StateRunning) =>
                  running[s] # NoJob /\ running'[s] = running[s]]_vars

\* C28, witness: the process has died of the panic of a slot that found no
\* job; the slot went from Waiting to Offline in its deferred calls.
C28_Witness ==
    /\ crashed = "job is nil"
    /\ \E s \in Instances : panicking[s] /\ state[s] = StateOffline /\ job[s] = NoJob

\* C30, as claimed: no shared field of an Instance is accessed without its
\* mutex, so the job of a slot is never written by free between the slot's
\* status(StateWaiting) and status(StateRunning), where runInstance reads
\* inst.job: the read is under the mutex.
C30_JobReadUnderMutex ==
    [][\A s \in Instances :
         (job'[s] # job[s] /\ ipc[s] \in {"readjob", "run"}) => Locks("readjob")]_vars

C26_ExitValueFinal ==
    /\ [](exitVal # "none" => mpc # "loop" /\ cause = "exit" /\ runErr = "nil")
    /\ []((cause = "exit" /\ mpc = "done") => exitVal # "none")
    /\ [][/\ exitVal # "none" => exitVal' = exitVal
          /\ exitVal' # exitVal => mpc = "loop" /\ mpc' \in {"wait", "done"}]_vars

\* C26, witness: the command exited with an error that the policy does not
\* allow, and monitorExecution has returned the Report.
C26_Witness ==
    exitVal = "error" /\ mpc = "done" /\ cause = "exit" /\ ~rep.nil /\ ~HasBit(exit, ExitError)

\* C27: mon.lastExecuteTime is the latest of the start of the Run, the last
\* injection and the last chunk that holds the marker; a tick ends the loop
\* with extractError(noOutputCrash) exactly when more than NoOutput has
\* passed since then, whatever other output arrived in between, and the
\* Report is the no-output one.
C27_HangDeadline ==
    /\ [](mpc = "loop" => lastExecuteTime = lastActivity)
    /\ [][now' # now =>
            ((cause' = "noout" /\ mpc' # "loop") <=> (now' - lastActivity > NoOutput))]_vars
    /\ []((cause = "noout" /\ mpc = "done") =>
            ~rep.nil /\ rep.Title = noOutputCrash /\ now - lastActivity > NoOutput)

\* C27, witness: output arrived, none of it with the marker, and the tick
\* after NoOutput ended the Run with the no-output Report.
C27_Witness ==
    /\ cause = "noout" /\ mpc = "done" /\ rep.Title = noOutputCrash
    /\ received # <<>> /\ lastActivity = 0 /\ now = NoOutput + 1

\* C29: when qemu Instance.Run returns an error (the pipe or the start of
\* the subprocess failed), Instance.Run returns it with no output and no
\* Report: the select loop is never entered, nothing is taken from outc or
\* errc, Diagnose and the EarlyFinishCb are not called.
C29_StartFailureDirect ==
    runErr \in {"pipe", "start"} =>
        /\ mpc = "done" /\ cause = "start"
        /\ output = <<>> /\ rep = NilRep
        /\ received = <<>> /\ exitVal = "none" /\ closeReads = 0
        /\ extractEntries = 0 /\ diagCalls = 0 /\ reports = 0
        /\ finishedCalls = 0 /\ finishedAt = NeverCalled

\* C29, witness: the subprocess could not be started in a Run that has an
\* EarlyFinishCb; Run is over and the callback was not called.
C29_Witness ==
    runErr = "start" /\ mpc = "done" /\ finished /\ finishedCalls = 0 /\ rep = NilRep


\* C35: in every state of the monitor matchPos is an offset of the buffer,
\* 0 <= matchPos <= len(output), so that output[matchPos:] is in range where
\* appendOutput scans it and where createReport parses it: after appends,
\* compactions and the appends of the wait for trailing output.
C35_MatchPosInRange ==
    /\ matchPos >= 0
    /\ matchPos <= Len(output)

\* C35, witness: the scan position has moved off 0, a crash was found in
\* the window after it and the Report was parsed from there.
C35_Witness ==
    /\ mpc = "done" /\ matchPos > 0 /\ matchPos < Len(output) /\ ~rep.nil

\* C32: createReport keeps Output[max(StartPos - beforeContext, 0) :
\* min(EndPos + afterContext, len(Output))] of a parsed Report and moves
\* StartPos and EndPos back by the length of the prefix it removed, so that
\* Output[StartPos:EndPos] is the same bytes as before the trimming and
\* 0 <= StartPos <= EndPos <= len(Output) afterwards.
C32_TrimKeepsCrash ==
    tpc = "out" =>
        LET start == Max(tin.StartPos - tbc, 0)
            end == Min(tin.EndPos + tac, Len(tin.Output))
        IN /\ tout.Output = Slice(tin.Output, start, end)
           /\ tout.StartPos = tin.StartPos - start
           /\ tout.EndPos = tin.EndPos - start
           /\ Slice(tout.Output, tout.StartPos, tout.EndPos)
                  = Slice(tin.Output, tin.StartPos, tin.EndPos)
           /\ 0 <= tout.StartPos
           /\ tout.StartPos <= tout.EndPos
           /\ tout.EndPos <= Len(tout.Output)

\* C32, witness: a Report was trimmed at both ends, around a crash that is
\* not empty.
C32_Witness ==
    /\ tpc = "out"
    /\ tin.StartPos - tbc > 0
    /\ tin.EndPos + tac < Len(tin.Output)
    /\ tin.StartPos < tin.EndPos
    /\ tout.StartPos > 0
    /\ tout.EndPos < Len(tout.Output)

\* C31 as stated: when the command exits with nil or an error and a crash is
\* in the window when the wait for trailing output ends, the Report returned
\* is the one parsed from the output and Diagnose has been called for it.
C31_CrashBeatsExit ==
    (/\ mpc = "done" /\ cause = "exit" /\ exitVal \in {"nil", "error"}
     /\ WindowHasCrash(output, matchPos))
        => /\ ~rep.nil
           /\ rep.Title = CrashTitle
           /\ diagArg = CrashTitle

\* C31, amended: in that case the Report returned is the one parsed from the
\* output, and Diagnose has been called once: for that Report when the exit
\* is one the policy allows, and else before the wait, for the
\* lost-connection Report made at the exit.
C31_CrashBeatsExitDiagnosedOnce ==
    (/\ mpc = "done" /\ cause = "exit" /\ exitVal \in {"nil", "error"}
     /\ WindowHasCrash(output, matchPos))
        => /\ ~rep.nil
           /\ rep.Title = CrashTitle
           /\ rep.Type = CrashType
           /\ diagCalls = 1
           /\ diagArg = IF defaultError = "" THEN CrashTitle ELSE lostConnectionCrash

\* C31, witness: the exit was not allowed, the crash arrived during the wait
\* and the parsed Report was returned after a Diagnose of the lost connection.
C31_Witness ==
    /\ mpc = "done" /\ cause = "exit" /\ exitVal = "error"
    /\ WindowHasCrash(output, matchPos)
    /\ defaultError = lostConnectionCrash
    /\ diagArg = lostConnectionCrash
    /\ rep.Title = CrashTitle

\* C40 as stated: with a crash chunk waiting on outc when the exit value
\* arrives, Run returns a crash Report whichever of the two the loop takes
\* first, for every exit value and every exit policy.
C40_CrashReportEitherOrder ==
    (mpc = "done" /\ cause \in {"exit", "crash"})
        => (~rep.nil /\ rep.Title = CrashTitle)

\* C40, amended: the same, unless the exit taken first is a timeout the
\* policy allows, and provided Shutdown is not signalled during the Run.
C40_CrashReportUnlessAllowedTimeout ==
    (/\ mpc = "done" /\ cause \in {"exit", "crash"}
     /\ ~(cause = "exit" /\ exitVal = "timeout" /\ HasBit(exit, ExitTimeout))
     /\ ~shutdown)
        => (~rep.nil /\ rep.Title = CrashTitle)

\* C40, witness: the loop took the exit first, the crash chunk was received
\* in the wait and the crash Report returned.
C40_Witness ==
    /\ mpc = "done" /\ cause = "exit" /\ exitVal = "nil" /\ ~shutdown
    /\ received = <<Chunk("sig", 0)>>
    /\ nscanned = 0
    /\ rep.Title = CrashTitle

\* C39 as stated: a chunk by which the output received so far gains an
\* occurrence of the marker resets the hang deadline, however the bytes of
\* the marker are cut into chunks.
C39_MarkerResetsDeadline ==
    [][(/\ mpc = "loop" /\ mpc' = "loop"
        /\ ~Contains(Stream(received), executingProgram)
        /\ Contains(Stream(received'), executingProgram))
          => lastExecuteTime' = now]_vars

\* C37 as stated: free never calls a stop function that is not set: an
\* Instance that has a job assigned has a stop function installed, also
\* before the first reset of its slot.
C37_StopInstalledWithJob ==
    /\ crashed # "stop is nil"
    /\ \A s \in Instances : job[s] # NoJob => stop[s] # "nil"

\* C38 as stated: the job a slot starts is given a context that is not
\* cancelled at the time of the call, whatever free or the cancellation of
\* the pool's context did while the slot was Booting or Waiting.
C38_JobGetsLiveContext ==
    [][\A s \in Instances : (ipc[s] = "run" /\ ipc'[s] = "job") => ~CtxErr(s)]_vars

\* What holds when Loop returns: every goroutine of a slot is done, every
\* Instance is Offline and closed, and nothing is counted as active.
LoopReturnsClean ==
    [](loopRet => /\ \A s \in Instances :
                       ipc[s] = "exited" /\ state[s] = StateOffline /\ live[s] = 0
                  /\ activeCount = 0
                  /\ ctxDone)

Open == {i \in 1..Len(objs) : objs[i] = 0}

\* C36 as stated: after any calls of Pool.Create, failed ones included, and of
\* Instance.Close, repeated ones included, pool.activeCount is the number of
\* Instances created and not yet closed, and it is never negative.
C36_ActiveCountIsOpen ==
    /\ activeCount = Cardinality(Open)
    /\ activeCount >= 0

\* C34: the collector of the boot output is stopped before boot returns.
\* When boot has returned the collector is past its select and receives and
\* appends nothing more, so the output the machine prints later stays on
\* inst.merger.Output; on the failure of the SSH wait the error carries all
\* the collector received, the collector has ended, and nothing is appended
\* once boot has been let through its send; on success no error is made.
C34_CollectorStoppedFirst ==
    /\ [](bpc = "ret" => colpc \in {"close", "gone"})
    /\ []((bpc = "ret" /\ bssh = "err") =>
              (colpc = "gone" /\ closed /\ bret = bootOutput /\ bret = taken))
    /\ []((bpc = "ret" /\ bssh = "nil") => bret = "none")
    /\ [][(bpc = "recv" \/ bpc = "read" \/ bpc = "ret") =>
              (bootOutput' = bootOutput /\ taken' = taken /\ mq' >= mq)]_vars

\* C34, witness: the SSH wait failed, boot returned an error with output in
\* it, and a chunk printed later waits on inst.merger.Output.
C34_Witness ==
    /\ bpc = "ret" /\ bssh = "err"
    /\ bret >= 1
    /\ mq >= 1
    /\ colpc = "gone"

====
